---- MODULE Spec2Model ----
(***************************************************************************)
(* Model of the temporal/dimensional query resolver                        *)
(* (AnalysisController._parse_query) and of the OLAP driver analysis       *)
(* (DataManager.get_driver_analysis) of hantecken/MyAI.                    *)
(*                                                                         *)
(* A text is a sequence of one-character strings.  The regular expressions *)
(* of the resolver are modelled character by character (MatchAt/FindAll),  *)
(* str.replace, int() and the f-string / strftime formatting are modelled  *)
(* by what they do on such sequences.                                      *)
(***************************************************************************)
EXTENDS Integers, Sequences, FiniteSets, Bags, TLC

VARIABLES
    toks,             \* the tokens the query text is assembled from
    query,            \* the argument of _parse_query
    pc,               \* the position of the _parse_query call
    processed_query,  \* local of _parse_query
    locals,           \* current_start .. period_text of _parse_query
    result,           \* parsed_result
    sales_fact,       \* the rows of table sales_fact (a bag of rows)
    reply,            \* the outcome of the last DataManager call
    config,           \* ForecastScheduler.config
    schedule_config_json, \* the content of the file schedule_config.json
    jobs              \* schedule.jobs, the registered jobs of the process

resolveVars == <<toks, query, pc, processed_query, locals, result>>

storeVars == <<sales_fact, reply>>

schedulerVars == <<config, schedule_config_json, jobs>>

vars == <<resolveVars, storeVars, schedulerVars>>

\* the dict {} : no key at all
EmptyDict == [schedule_type |-> "None", execution_time |-> "None"]

\* schedule_config.json does not exist or does not hold JSON
NoFile == [schedule_type |-> "unreadable", execution_time |-> "unreadable"]

\* the scheduler of a process that never configured a schedule
NoSchedule ==
    /\ config = EmptyDict
    /\ schedule_config_json = NoFile
    /\ jobs = <<>>

(***************************************************************************)
(* Bounds of the model                                                     *)
(***************************************************************************)
\* largest number of tokens a query text is assembled from
MaxTokens == 3

(***************************************************************************)
(* Characters, digits, int() and number formatting                         *)
(***************************************************************************)
Digits == {"0", "1", "2", "3", "4", "5", "6", "7", "8", "9"}

IsDigit(c) == c \in Digits

DigitVal(c) ==
    CASE c = "0" -> 0 [] c = "1" -> 1 [] c = "2" -> 2 [] c = "3" -> 3
      [] c = "4" -> 4 [] c = "5" -> 5 [] c = "6" -> 6 [] c = "7" -> 7
      [] c = "8" -> 8 [] c = "9" -> 9

DigitChar(n) ==
    CASE n = 0 -> "0" [] n = 1 -> "1" [] n = 2 -> "2" [] n = 3 -> "3"
      [] n = 4 -> "4" [] n = 5 -> "5" [] n = 6 -> "6" [] n = 7 -> "7"
      [] n = 8 -> "8" [] n = 9 -> "9"

\* int(s) for a string of decimal digits
RECURSIVE ParseInt(_)
ParseInt(ds) ==
    IF ds = <<>> THEN 0
    ELSE 10 * ParseInt(SubSeq(ds, 1, Len(ds) - 1)) + DigitVal(ds[Len(ds)])

\* f"{n}" for a natural number n
RECURSIVE FormatInt(_)
FormatInt(n) ==
    IF n < 10 THEN <<DigitChar(n)>>
    ELSE FormatInt(n \div 10) \o <<DigitChar(n % 10)>>

\* f"{n:0wd}": zero padded to at least w characters
RECURSIVE ZeroPad(_, _)
ZeroPad(ds, w) == IF Len(ds) >= w THEN ds ELSE ZeroPad(<<"0">> \o ds, w)

Format02(n) == ZeroPad(FormatInt(n), 2)

(***************************************************************************)
(* Strings: character access, `in`, str.replace                            *)
(***************************************************************************)
\* the character at position i, "" beyond either end of the text
At(s, i) == IF i >= 1 /\ i <= Len(s) THEN s[i] ELSE ""

\* w in s
Contains(s, w) ==
    \E i \in 1..(Len(s) - Len(w) + 1) : SubSeq(s, i, i + Len(w) - 1) = w

\* every non-overlapping occurrence of old in s, left to right, made new
RECURSIVE ReplaceAll(_, _, _)
ReplaceAll(s, old, new) ==
    IF Len(s) < Len(old) THEN s
    ELSE IF SubSeq(s, 1, Len(old)) = old
         THEN new \o ReplaceAll(SubSeq(s, Len(old) + 1, Len(s)), old, new)
         ELSE <<s[1]>> \o ReplaceAll(Tail(s), old, new)

\* s.replace(old, new); a text without an occurrence is returned as it is
Replace(s, old, new) ==
    IF Contains(s, old) THEN ReplaceAll(s, old, new) ELSE s

RECURSIVE Flatten(_)
Flatten(ts) == IF ts = <<>> THEN <<>> ELSE Head(ts) \o Flatten(Tail(ts))

(***************************************************************************)
(* CJK characters.  A character is a string; the CJK characters of the     *)
(* source are named by their code points.                                  *)
(***************************************************************************)
cNian == "U+5E74"   \* 年
cYue  == "U+6708"   \* 月
cJi   == "U+5B63"   \* 季
cQu   == "U+53BB"   \* 去
cQian == "U+524D"   \* 前
cJin  == "U+4ECA"   \* 今
cShang == "U+4E0A"  \* 上
cYi   == "U+4E00"   \* 一
cEr   == "U+4E8C"   \* 二
cSan  == "U+4E09"   \* 三
cSi   == "U+56DB"   \* 四
cWu   == "U+4E94"   \* 五
cLiu  == "U+516D"   \* 六
cQi   == "U+4E03"   \* 七
cBa   == "U+516B"   \* 八
cJiu  == "U+4E5D"   \* 九
cShi  == "U+5341"   \* 十

(***************************************************************************)
(* Token Normalizer (month_mapping and quarter_mapping, in dict order)     *)
(***************************************************************************)
month_mapping ==
    << <<<<cYi, cYue>>, <<"0", "1">>>>,
       <<<<cEr, cYue>>, <<"0", "2">>>>,
       <<<<cSan, cYue>>, <<"0", "3">>>>,
       <<<<cSi, cYue>>, <<"0", "4">>>>,
       <<<<cWu, cYue>>, <<"0", "5">>>>,
       <<<<cLiu, cYue>>, <<"0", "6">>>>,
       <<<<cQi, cYue>>, <<"0", "7">>>>,
       <<<<cBa, cYue>>, <<"0", "8">>>>,
       <<<<cJiu, cYue>>, <<"0", "9">>>>,
       <<<<cShi, cYue>>, <<"1", "0">>>>,
       <<<<cShi, cYi, cYue>>, <<"1", "1">>>>,
       <<<<cShi, cEr, cYue>>, <<"1", "2">>>> >>

\* a mapping in which q<d> is both made and replaced
quarter_mapping_chained ==
    << <<<<cJi, "1">>, <<"q", "1">>>>,
       <<<<cJi, "2">>, <<"q", "2">>>>,
       <<<<cJi, "3">>, <<"q", "3">>>>,
       <<<<cJi, "4">>, <<"q", "4">>>>,
       <<<<"q", "1">>, <<"Q", "1">>>>,
       <<<<"q", "2">>, <<"Q", "2">>>>,
       <<<<"q", "3">>, <<"Q", "3">>>>,
       <<<<"q", "4">>, <<"Q", "4">>>> >>

quarter_mapping ==
    << <<<<cJi, "1">>, <<"Q", "1">>>>,
       <<<<cJi, "2">>, <<"Q", "2">>>>,
       <<<<cJi, "3">>, <<"Q", "3">>>>,
       <<<<cJi, "4">>, <<"Q", "4">>>>,
       <<<<"q", "1">>, <<"Q", "1">>>>,
       <<<<"q", "2">>, <<"Q", "2">>>>,
       <<<<"q", "3">>, <<"Q", "3">>>>,
       <<<<"q", "4">>, <<"Q", "4">>>> >>

\* the loop over month_mapping: "年" + word -> "年" + MM + "月"
RECURSIVE ReplaceMonths(_, _)
ReplaceMonths(s, k) ==
    IF k > Len(month_mapping) THEN s
    ELSE ReplaceMonths(
            Replace(s, <<cNian>> \o month_mapping[k][1],
                       <<cNian>> \o month_mapping[k][2] \o <<cYue>>),
            k + 1)

\* the loop over quarter_mapping
RECURSIVE ReplaceQuarters(_, _)
ReplaceQuarters(s, k) ==
    IF k > Len(quarter_mapping) THEN s
    ELSE ReplaceQuarters(
            Replace(s, quarter_mapping[k][1], quarter_mapping[k][2]), k + 1)

NormalizeText(s) == ReplaceQuarters(ReplaceMonths(s, 1), 1)

(***************************************************************************)
(* The regular expressions of _parse_query.  MatchAt(pat, s, i) is the     *)
(* match of pattern pat that starts at position i of s: a record with the  *)
(* length of the match and its groups, or NoMatch.                         *)
(***************************************************************************)
NoMatch == [len |-> 0, groups |-> <<>>]

FourDigits(s, i) ==
    IsDigit(At(s, i)) /\ IsDigit(At(s, i + 1)) /\ IsDigit(At(s, i + 2))
        /\ IsDigit(At(s, i + 3))

\* (\d{4})[/-](\d{1,2})
slash_dash_pattern(s, i) ==
    IF FourDigits(s, i) /\ At(s, i + 4) \in {"/", "-"} /\ IsDigit(At(s, i + 5))
    THEN LET n == IF IsDigit(At(s, i + 6)) THEN 2 ELSE 1
         IN  [len |-> 5 + n,
              groups |-> <<SubSeq(s, i, i + 3), SubSeq(s, i + 5, i + 4 + n)>>]
    ELSE NoMatch

\* the negative lookahead (?!\d{1,2}月|Q\d) of year_pattern, at position j
MonthOrQuarterAhead(s, j) ==
    \/ IsDigit(At(s, j)) /\ At(s, j + 1) = cYue
    \/ IsDigit(At(s, j)) /\ IsDigit(At(s, j + 1)) /\ At(s, j + 2) = cYue
    \/ At(s, j) = "Q" /\ IsDigit(At(s, j + 1))

\* (\d{4})年(?!\d{1,2}月|Q\d)
year_pattern(s, i) ==
    IF FourDigits(s, i) /\ At(s, i + 4) = cNian /\ ~MonthOrQuarterAhead(s, i + 5)
    THEN [len |-> 5, groups |-> <<SubSeq(s, i, i + 3)>>]
    ELSE NoMatch

\* (\d{4})年(\d{1,2})月
year_month_pattern(s, i) ==
    IF FourDigits(s, i) /\ At(s, i + 4) = cNian /\ IsDigit(At(s, i + 5))
    THEN IF IsDigit(At(s, i + 6)) /\ At(s, i + 7) = cYue
         THEN [len |-> 8,
               groups |-> <<SubSeq(s, i, i + 3), SubSeq(s, i + 5, i + 6)>>]
         ELSE IF At(s, i + 6) = cYue
         THEN [len |-> 7,
               groups |-> <<SubSeq(s, i, i + 3), SubSeq(s, i + 5, i + 5)>>]
         ELSE NoMatch
    ELSE NoMatch

\* Q(\d)(?!\d{4}年)
pure_quarter_pattern(s, i) ==
    IF At(s, i) = "Q" /\ IsDigit(At(s, i + 1))
       /\ ~(FourDigits(s, i + 2) /\ At(s, i + 6) = cNian)
    THEN [len |-> 2, groups |-> <<SubSeq(s, i + 1, i + 1)>>]
    ELSE NoMatch

\* (\d{4})年Q(\d)
quarter_pattern(s, i) ==
    IF FourDigits(s, i) /\ At(s, i + 4) = cNian /\ At(s, i + 5) = "Q"
       /\ IsDigit(At(s, i + 6))
    THEN [len |-> 7,
          groups |-> <<SubSeq(s, i, i + 3), SubSeq(s, i + 6, i + 6)>>]
    ELSE NoMatch

\* (去年|前年|今年)Q(\d)
relative_pattern(s, i) ==
    IF At(s, i) \in {cQu, cQian, cJin} /\ At(s, i + 1) = cNian
       /\ At(s, i + 2) = "Q" /\ IsDigit(At(s, i + 3))
    THEN [len |-> 4,
          groups |-> <<SubSeq(s, i, i + 1), SubSeq(s, i + 3, i + 3)>>]
    ELSE NoMatch

MatchAt(pat, s, i) ==
    CASE pat = "slash_dash"   -> slash_dash_pattern(s, i)
      [] pat = "year"         -> year_pattern(s, i)
      [] pat = "year_month"   -> year_month_pattern(s, i)
      [] pat = "pure_quarter" -> pure_quarter_pattern(s, i)
      [] pat = "quarter"      -> quarter_pattern(s, i)
      [] pat = "relative"     -> relative_pattern(s, i)

\* re.findall(pat, s): the groups of the non-overlapping matches, scanning
\* from the left and resuming after the end of each match
RECURSIVE FindFrom(_, _, _)
FindFrom(pat, s, i) ==
    IF i > Len(s) THEN <<>>
    ELSE LET m == MatchAt(pat, s, i)
         IN  IF m.len > 0
             THEN <<m.groups>> \o FindFrom(pat, s, i + m.len)
             ELSE FindFrom(pat, s, i + 1)

FindAll(pat, s) == FindFrom(pat, s, 1)

(***************************************************************************)
(* datetime, timedelta(days=1), relativedelta(months=n), strftime          *)
(***************************************************************************)
MINYEAR == 1
MAXYEAR == 9999

IsLeap(y) == (y % 4 = 0 /\ y % 100 # 0) \/ y % 400 = 0

DaysInMonth(y, m) ==
    CASE m \in {4, 6, 9, 11} -> 30
      [] m = 2 -> IF IsLeap(y) THEN 29 ELSE 28
      [] OTHER -> 31

\* datetime(y, m, d) raises ValueError unless this holds
ValidDate(y, m, d) ==
    /\ y \in MINYEAR..MAXYEAR
    /\ m \in 1..12
    /\ d \in 1..DaysInMonth(y, m)

datetime(y, m, d) == [y |-> y, m |-> m, d |-> d]

\* the result of date arithmetic is a datetime only inside MINYEAR..MAXYEAR
InRange(dt) == dt.y \in MINYEAR..MAXYEAR

Min(a, b) == IF a <= b THEN a ELSE b

\* dt + relativedelta(months=n): the day is clipped to the target month
AddMonths(dt, n) ==
    LET t  == dt.y * 12 + (dt.m - 1) + n
        ny == t \div 12
        nm == (t % 12) + 1
    IN  datetime(ny, nm, Min(dt.d, DaysInMonth(ny, nm)))

\* dt - timedelta(days=1)
SubDay(dt) ==
    IF dt.d > 1 THEN datetime(dt.y, dt.m, dt.d - 1)
    ELSE IF dt.m > 1
         THEN datetime(dt.y, dt.m - 1, DaysInMonth(dt.y, dt.m - 1))
         ELSE datetime(dt.y - 1, 12, 31)

\* dt.strftime('%Y-%m-%d')
strftime(dt) ==
    ZeroPad(FormatInt(dt.y), 4) \o <<"-">> \o Format02(dt.m) \o <<"-">>
        \o Format02(dt.d)

\* a resolver whose date is moved by the calls made before
today_after_calls ==
    IF reply.op = "none" THEN datetime(2025, 8, 31) ELSE datetime(2025, 5, 31)

\* today = datetime(2025, 8, 31)
today == datetime(2025, 8, 31)

(***************************************************************************)
(* The temporal cascade of _parse_query.  The value is the locals of the   *)
(* method after the cascade (with the branch that assigned them), or       *)
(* Raised when a datetime constructor or date arithmetic raises.           *)
(***************************************************************************)
Raised == [raised |-> TRUE]

Locals(cs, ce, ls, le, pt, br) ==
    IF InRange(cs) /\ InRange(ce) /\ InRange(ls) /\ InRange(le)
    THEN [raised |-> FALSE, current_start |-> cs, current_end |-> ce,
          last_start |-> ls, last_end |-> le, period_text |-> pt,
          branch |-> br]
    ELSE Raised

sVs    == <<" ", "v", "s", " ">>
sYear  == <<cNian>>
sMonth == <<cYue>>

\* lines 37-42: this month vs last month of the reference date
DefaultLocals ==
    LET current_start == datetime(today.y, today.m, 1)
        ld            == SubDay(current_start)
        last_start    == datetime(ld.y, ld.m, 1)
        current_end   == SubDay(AddMonths(current_start, 1))
        last_end      == SubDay(AddMonths(last_start, 1))
    IN  Locals(current_start, current_end, last_start, last_end,
               FormatInt(current_start.y) \o sYear
                   \o FormatInt(current_start.m) \o sMonth \o sVs
                   \o <<cShang, cYue>>,
               "default")

\* lines 80-91 and 142-153: two year/month matches
TwoMonths(ms, br) ==
    LET current_year  == ParseInt(ms[1][1])
        current_month == ParseInt(ms[1][2])
        last_year     == ParseInt(ms[2][1])
        last_month    == ParseInt(ms[2][2])
        current_start == datetime(current_year, current_month, 1)
        current_end   == SubDay(AddMonths(current_start, 1))
        last_start    == datetime(last_year, last_month, 1)
        last_end      == SubDay(AddMonths(last_start, 1))
    IN  IF ValidDate(current_year, current_month, 1)
           /\ ValidDate(last_year, last_month, 1)
        THEN Locals(current_start, current_end, last_start, last_end,
                    FormatInt(current_year) \o sYear
                        \o Format02(current_month) \o sMonth \o sVs
                        \o FormatInt(last_year) \o sYear
                        \o Format02(last_month) \o sMonth,
                    br)
        ELSE Raised

\* OneMonth with the month before taken as month - 1 of the same year
OneMonthSameYear(ms, br) ==
    LET current_year  == ParseInt(ms[1][1])
        current_month == ParseInt(ms[1][2])
        current_start == datetime(current_year, current_month, 1)
        current_end   == SubDay(AddMonths(current_start, 1))
        last_start    == datetime(current_year, current_month - 1, 1)
        last_end      == SubDay(current_start)
    IN  IF ValidDate(current_year, current_month, 1)
           /\ ValidDate(current_year, current_month - 1, 1)
        THEN Locals(current_start, current_end, last_start, last_end,
                    FormatInt(current_year) \o sYear
                        \o Format02(current_month) \o sMonth \o sVs
                        \o <<cShang, cYue>>,
                    br)
        ELSE Raised

\* lines 93-104 and 155-166: one year/month match
OneMonth(ms, br) ==
    LET current_year  == ParseInt(ms[1][1])
        current_month == ParseInt(ms[1][2])
        current_start == datetime(current_year, current_month, 1)
        current_end   == SubDay(AddMonths(current_start, 1))
        last_start    == AddMonths(current_start, -1)
        last_end      == SubDay(current_start)
    IN  IF ValidDate(current_year, current_month, 1)
        THEN Locals(current_start, current_end, last_start, last_end,
                    FormatInt(current_year) \o sYear
                        \o Format02(current_month) \o sMonth \o sVs
                        \o <<cShang, cYue>>,
                    br)
        ELSE Raised

\* TwoYears with the two matches taken in the opposite order
TwoYearsSwapped(ms) ==
    LET current_year == ParseInt(ms[2][1])
        last_year    == ParseInt(ms[1][1])
    IN  IF ValidDate(current_year, 1, 1) /\ ValidDate(last_year, 1, 1)
        THEN Locals(datetime(current_year, 1, 1),
                    datetime(current_year, 12, 31),
                    datetime(last_year, 1, 1), datetime(last_year, 12, 31),
                    FormatInt(current_year) \o sYear \o sVs
                        \o FormatInt(last_year) \o sYear,
                    "year2")
        ELSE Raised

\* lines 111-122: two year-only matches
TwoYears(ms) ==
    LET current_year == ParseInt(ms[1][1])
        last_year    == ParseInt(ms[2][1])
    IN  IF ValidDate(current_year, 1, 1) /\ ValidDate(last_year, 1, 1)
        THEN Locals(datetime(current_year, 1, 1),
                    datetime(current_year, 12, 31),
                    datetime(last_year, 1, 1), datetime(last_year, 12, 31),
                    FormatInt(current_year) \o sYear \o sVs
                        \o FormatInt(last_year) \o sYear,
                    "year2")
        ELSE Raised

\* lines 124-135: one year-only match
OneYear(ms) ==
    LET current_year == ParseInt(ms[1][1])
    IN  IF ValidDate(current_year, 1, 1) /\ ValidDate(current_year - 1, 1, 1)
        THEN Locals(datetime(current_year, 1, 1),
                    datetime(current_year, 12, 31),
                    datetime(current_year - 1, 1, 1),
                    datetime(current_year - 1, 12, 31),
                    FormatInt(current_year) \o sYear \o sVs
                        \o <<cQu, cNian>>,
                    "year1")
        ELSE Raised

\* 3 * (quarter - 1) + 1
QuarterStartMonth(q) == 3 * (q - 1) + 1

\* QuarterWindows with the three months left out of current_end
QuarterWindowsShortEnd(current_year, current_quarter, last_year, last_quarter, pt, br) ==
    LET current_start_month == 3 * (current_quarter - 1) + 1
        last_start_month    == 3 * (last_quarter - 1) + 1
        current_start == datetime(current_year, current_start_month, 1)
        current_end   == SubDay(current_start)
        last_start    == datetime(last_year, last_start_month, 1)
        last_end      == SubDay(AddMonths(last_start, 3))
    IN  IF ValidDate(current_year, current_start_month, 1)
           /\ ValidDate(last_year, last_start_month, 1)
        THEN Locals(current_start, current_end, last_start, last_end, pt, br)
        ELSE Raised

\* the two quarter windows built at lines 182-190, 199-214, 232-240, 258-266
\* and 273-288: each starts on the first day of the quarter's first month
\* and ends the day before the start plus three months
QuarterWindows(current_year, current_quarter, last_year, last_quarter, pt, br) ==
    LET current_start_month == QuarterStartMonth(current_quarter)
        last_start_month    == QuarterStartMonth(last_quarter)
        current_start == datetime(current_year, current_start_month, 1)
        current_end   == SubDay(AddMonths(current_start, 3))
        last_start    == datetime(last_year, last_start_month, 1)
        last_end      == SubDay(AddMonths(last_start, 3))
    IN  IF ValidDate(current_year, current_start_month, 1)
           /\ ValidDate(last_year, last_start_month, 1)
        THEN Locals(current_start, current_end, last_start, last_end, pt, br)
        ELSE Raised

\* PrevQuarter without the step to the year before
PrevQuarterSameYear(year, quarter) ==
    IF quarter = 1 THEN [year |-> year, quarter |-> 4]
    ELSE [year |-> year, quarter |-> quarter - 1]

\* lines 205-210 and 279-284: the quarter before (year, quarter)
PrevQuarter(year, quarter) ==
    IF quarter = 1 THEN [year |-> year - 1, quarter |-> 4]
    ELSE [year |-> year, quarter |-> quarter - 1]

QLabel(q) == <<"Q">> \o FormatInt(q)

YQLabel(y, q) == FormatInt(y) \o sYear \o QLabel(q)

\* lines 173-192: two pure quarters, both in the year of today
TwoPureQuarters(ms) ==
    LET current_quarter == ParseInt(ms[1][1])
        last_quarter    == ParseInt(ms[2][1])
    IN  QuarterWindows(today.y, current_quarter, today.y, last_quarter,
                       QLabel(current_quarter) \o sVs \o QLabel(last_quarter),
                       "pure2")

\* lines 194-216: one pure quarter of the year of today vs the quarter before
OnePureQuarter(ms) ==
    LET current_quarter == ParseInt(ms[1][1])
        prev            == PrevQuarter(today.y, current_quarter)
    IN  QuarterWindows(today.y, current_quarter, prev.year, prev.quarter,
                       QLabel(current_quarter) \o sVs \o QLabel(prev.quarter),
                       "pure1")

\* lines 227-242: two YYYY年Q<d>
TwoYearQuarters(qm) ==
    LET current_year    == ParseInt(qm[1][1])
        current_quarter == ParseInt(qm[1][2])
        last_year       == ParseInt(qm[2][1])
        last_quarter    == ParseInt(qm[2][2])
    IN  QuarterWindows(current_year, current_quarter, last_year, last_quarter,
                       YQLabel(current_year, current_quarter) \o sVs
                           \o YQLabel(last_year, last_quarter),
                       "quarter2")

\* lines 244-268: one YYYY年Q<d> and a relative-year quarter
YearQuarterRelative(qm, rm) ==
    LET current_year    == ParseInt(qm[1][1])
        current_quarter == ParseInt(qm[1][2])
        relative_time   == rm[1][1]
        last_quarter    == ParseInt(rm[1][2])
        last_year       == IF relative_time = <<cQu, cNian>>
                           THEN current_year - 1
                           ELSE IF relative_time = <<cQian, cNian>>
                           THEN current_year - 2
                           ELSE current_year
    IN  QuarterWindows(current_year, current_quarter, last_year, last_quarter,
                       YQLabel(current_year, current_quarter) \o sVs
                           \o YQLabel(last_year, last_quarter),
                       "quarter_relative")

\* lines 270-290: one YYYY年Q<d> vs the quarter before
OneYearQuarter(qm) ==
    LET current_year    == ParseInt(qm[1][1])
        current_quarter == ParseInt(qm[1][2])
        prev            == PrevQuarter(current_year, current_quarter)
    IN  QuarterWindows(current_year, current_quarter, prev.year, prev.quarter,
                       YQLabel(current_year, current_quarter) \o sVs
                           \o YQLabel(prev.year, prev.quarter),
                       "quarter1")

\* QuarterDefault with the comparison window starting one month back
QuarterDefaultOneMonthBack ==
    LET current_quarter_start_month == 3 * ((today.m - 1) \div 3) + 1
        current_start == datetime(today.y, current_quarter_start_month, 1)
        current_end   == SubDay(AddMonths(current_start, 3))
        last_start    == AddMonths(current_start, -1)
        last_end      == SubDay(current_start)
    IN  Locals(current_start, current_end, last_start, last_end,
               FormatInt(current_start.y) \o sYear
                   \o <<"Q">> \o FormatInt((current_start.m - 1) \div 3 + 1)
                   \o sVs \o <<cShang, cJi>>,
               "quarter_default")

\* lines 297-304: the quarter of today vs the quarter before
QuarterDefault ==
    LET current_quarter_start_month == 3 * ((today.m - 1) \div 3) + 1
        current_start == datetime(today.y, current_quarter_start_month, 1)
        current_end   == SubDay(AddMonths(current_start, 3))
        last_start    == AddMonths(current_start, -3)
        last_end      == SubDay(current_start)
    IN  Locals(current_start, current_end, last_start, last_end,
               FormatInt(current_start.y) \o sYear
                   \o QLabel((current_start.m - 1) \div 3 + 1) \o sVs
                   \o <<cShang, cJi>>,
               "quarter_default")

\* lines 168-304: the quarter family
QuarterFamily(pq) ==
    LET pure_quarter_matches == FindAll("pure_quarter", pq)
        quarter_matches      == FindAll("quarter", pq)
        relative_matches     == FindAll("relative", pq)
    IN  IF Len(pure_quarter_matches) >= 2
        THEN TwoPureQuarters(pure_quarter_matches)
        ELSE IF Len(pure_quarter_matches) = 1
        THEN OnePureQuarter(pure_quarter_matches)
        ELSE IF Len(quarter_matches) >= 2
        THEN TwoYearQuarters(quarter_matches)
        ELSE IF Len(quarter_matches) = 1 /\ Len(relative_matches) >= 1
        THEN YearQuarterRelative(quarter_matches, relative_matches)
        ELSE IF Len(quarter_matches) = 1
        THEN OneYearQuarter(quarter_matches)
        ELSE QuarterDefault

\* ParseTime with the YYYY年MM月 grammar tried before the year-only grammar
ParseTimeMonthFirst(pq) ==
    LET slash_dash_matches == FindAll("slash_dash", pq)
        year_matches       == FindAll("year", pq)
        matches            == FindAll("year_month", pq)
    IN  IF Len(slash_dash_matches) >= 2
        THEN TwoMonths(slash_dash_matches, "slash2")
        ELSE IF Len(slash_dash_matches) = 1
        THEN OneMonth(slash_dash_matches, "slash1")
        ELSE IF Len(matches) >= 2
        THEN TwoMonths(matches, "month2")
        ELSE IF Len(matches) = 1
        THEN OneMonth(matches, "month1")
        ELSE IF Len(year_matches) >= 2
        THEN TwoYears(year_matches)
        ELSE IF Len(year_matches) = 1
        THEN OneYear(year_matches)
        ELSE IF Contains(pq, <<"Q">>) \/ Contains(pq, <<cJi>>)
        THEN QuarterFamily(pq)
        ELSE DefaultLocals

\* lines 76-304: the whole cascade over the normalized text
ParseTime(pq) ==
    LET slash_dash_matches == FindAll("slash_dash", pq)
        year_matches       == FindAll("year", pq)
        matches            == FindAll("year_month", pq)
    IN  IF Len(slash_dash_matches) >= 2
        THEN TwoMonths(slash_dash_matches, "slash2")
        ELSE IF Len(slash_dash_matches) = 1
        THEN OneMonth(slash_dash_matches, "slash1")
        ELSE IF Len(year_matches) >= 2
        THEN TwoYears(year_matches)
        ELSE IF Len(year_matches) = 1
        THEN OneYear(year_matches)
        ELSE IF Len(matches) >= 2
        THEN TwoMonths(matches, "month2")
        ELSE IF Len(matches) = 1
        THEN OneMonth(matches, "month1")
        ELSE IF Contains(pq, <<"Q">>) \/ Contains(pq, <<cJi>>)
        THEN QuarterFamily(pq)
        ELSE DefaultLocals

(***************************************************************************)
(* Dimension Classifier (lines 306-322), on the raw query                  *)
(***************************************************************************)
cChan   == "U+7522"   \* 產
cPin    == "U+54C1"   \* 品
cShangP == "U+5546"   \* 商
cYe     == "U+696D"   \* 業
cWuS    == "U+52D9"   \* 務
cYuan   == "U+54E1"   \* 員
cXiao   == "U+92B7"   \* 銷
cShou   == "U+552E"   \* 售
cKe     == "U+5BA2"   \* 客
cHu     == "U+6236"   \* 戶
cDi     == "U+5730"   \* 地
cQuR    == "U+5340"   \* 區
cYuR    == "U+57DF"   \* 域

product_words ==
    { <<cChan, cPin>>, <<cShangP, cPin>>, <<"i", "t", "e", "m">>,
      <<"p", "r", "o", "d", "u", "c", "t">> }

staff_words ==
    { <<cYe, cWuS, cYuan>>, <<cXiao, cShou, cYuan>>,
      <<"s", "t", "a", "f", "f">>, <<"s", "a", "l", "e", "s">> }

customer_words ==
    { <<cKe, cHu>>, <<"c", "u", "s", "t", "o", "m", "e", "r">>,
      <<"c", "l", "i", "e", "n", "t">> }

region_words ==
    { <<cDi, cQuR>>, <<cQuR, cYuR>>, <<"r", "e", "g", "i", "o", "n">>,
      <<"a", "r", "e", "a">> }

AnyWordIn(words, q) == \E w \in words : Contains(q, w)

\* the classifier with the staff words tested before the product words
ClassifyDimensionStaffFirst(q) ==
    IF AnyWordIn(staff_words, q)
    THEN [dimension |-> "staff", dimension_text |-> <<cYe, cWuS, cYuan>>]
    ELSE IF AnyWordIn(product_words, q)
    THEN [dimension |-> "product", dimension_text |-> <<cChan, cPin>>]
    ELSE IF AnyWordIn(customer_words, q)
    THEN [dimension |-> "customer", dimension_text |-> <<cKe, cHu>>]
    ELSE IF AnyWordIn(region_words, q)
    THEN [dimension |-> "region", dimension_text |-> <<cDi, cQuR>>]
    ELSE [dimension |-> "product", dimension_text |-> <<cChan, cPin>>]

ClassifyDimension(q) ==
    IF AnyWordIn(product_words, q)
    THEN [dimension |-> "product", dimension_text |-> <<cChan, cPin>>]
    ELSE IF AnyWordIn(staff_words, q)
    THEN [dimension |-> "staff", dimension_text |-> <<cYe, cWuS, cYuan>>]
    ELSE IF AnyWordIn(customer_words, q)
    THEN [dimension |-> "customer", dimension_text |-> <<cKe, cHu>>]
    ELSE IF AnyWordIn(region_words, q)
    THEN [dimension |-> "region", dimension_text |-> <<cDi, cQuR>>]
    ELSE [dimension |-> "product", dimension_text |-> <<cChan, cPin>>]

\* lines 324-343: parsed_result
ParsedResult(loc, q) ==
    LET dim == ClassifyDimension(q)
    IN  [current_start |-> strftime(loc.current_start),
         current_end |-> strftime(loc.current_end),
         last_start |-> strftime(loc.last_start),
         last_end |-> strftime(loc.last_end),
         period_text |-> loc.period_text,
         dimension |-> dim.dimension,
         dimension_text |-> dim.dimension_text]

NoReply == [op |-> "none"]

NoLocals == [raised |-> FALSE, branch |-> "none"]

NoResult == [dimension |-> "none"]

(***************************************************************************)
(* Query texts: concatenations of at most MaxTokens tokens                 *)
(***************************************************************************)
SlashTokens ==
    { <<"2", "0", "2", "5", "/", "0", "7">>,        \* 2025/07
      <<"2", "0", "2", "4", "-", "1">>,             \* 2024-1
      <<"2", "0", "2", "5", "/", "1", "3">> }       \* 2025/13

YearTokens ==
    { <<"2", "0", "2", "5", cNian>>,                \* 2025年
      <<"2", "0", "2", "3", cNian>> }               \* 2023年

MonthTokens ==
    { <<"2", "0", "2", "4", cNian, "3", cYue>>,     \* 2024年3月
      <<"2", "0", "2", "5", cNian, cShi, cYi, cYue>> }  \* 2025年十一月

PureQuarterTokens ==
    { <<"Q", "1">>, <<cJi, "4">>, <<"Q", "5">> }      \* Q1, 季4, Q5

YearQuarterTokens ==
    { <<"2", "0", "2", "5", cNian, "Q", "2">>,      \* 2025年Q2
      <<"2", "0", "2", "4", cNian, "Q", "1">> }     \* 2024年Q1

RelativeQuarterTokens ==
    { <<cQu, cNian, "Q", "2">> }                    \* 去年Q2

MarkerTokens == { <<cJi>> }                         \* 季

OtherTokens == { <<" ">>, <<cYe, cWuS, cYuan>> }    \* blank, 業務員

Tokens ==
    SlashTokens \cup YearTokens \cup MonthTokens \cup PureQuarterTokens
        \cup YearQuarterTokens \cup RelativeQuarterTokens \cup MarkerTokens
        \cup OtherTokens

TokenLists == UNION { [1..n -> Tokens] : n \in 0..MaxTokens }


(***************************************************************************)
(* resolve: one call of _parse_query(query)                                *)
(***************************************************************************)
Init ==
    /\ NoSchedule
    /\ toks \in TokenLists
    /\ query = Flatten(toks)
    /\ pc = "start"
    /\ processed_query = <<>>
    /\ locals = NoLocals
    /\ result = NoResult
    /\ sales_fact = EmptyBag
    /\ reply = NoReply

\* lines 49-72
Normalize ==
    /\ pc = "start"
    /\ processed_query' = NormalizeText(query)
    /\ pc' = "normalized"
    /\ UNCHANGED <<schedulerVars, toks, query, locals, result, storeVars>>

\* lines 74-304; an exception leaves _parse_query without a result
Cascade ==
    /\ pc = "normalized"
    /\ locals' = ParseTime(processed_query)
    /\ pc' = IF locals'.raised THEN "raised" ELSE "parsed"
    /\ UNCHANGED <<schedulerVars, toks, query, processed_query, result, storeVars>>

\* lines 306-343
Return ==
    /\ pc = "parsed"
    /\ result' = ParsedResult(locals, query)
    /\ pc' = "done"
    /\ UNCHANGED <<schedulerVars, toks, query, processed_query, locals, storeVars>>

Next == Normalize \/ Cascade \/ Return

Spec == Init /\ [][Next]_vars

(***************************************************************************)
(* The store: dimension tables and the fact table (DataManager)            *)
(***************************************************************************)
\* largest number of rows of sales_fact
MaxFacts == 3

\* dim_product .. dim_region: id -> name (the first rows seeded at lines
\* 87-97; the names stand for the seeded CJK names)
dim_product  == [id \in {1, 2, 3, 4} |-> <<"P1", "P2", "P3", "P4">>[id]]
dim_customer == [id \in {1, 2} |-> <<"C1", "C2">>[id]]
dim_staff    == [id \in {1, 2} |-> <<"S1", "S2">>[id]]
dim_region   == [id \in {1, 2} |-> <<"R1", "R2">>[id]]

\* dim_time: time_id -> date, a 'YYYY-MM-DD' text (line 108)
dim_time ==
    [id \in {1, 2, 3} |->
        << strftime(datetime(2025, 6, 30)), strftime(datetime(2025, 7, 1)),
           strftime(datetime(2025, 8, 1)) >>[id]]

\* the foreign keys of the rows that may be inserted
FactKeys ==
    { [product_id |-> 1, customer_id |-> 1, staff_id |-> 1, region_id |-> 1],
      [product_id |-> 2, customer_id |-> 1, staff_id |-> 2, region_id |-> 2],
      [product_id |-> 3, customer_id |-> 2, staff_id |-> 2, region_id |-> 1] }

\* amount is any number, no sign invariant
Amounts == {-1, 2}

FactRows ==
    { [product_id |-> k.product_id, customer_id |-> k.customer_id,
       staff_id |-> k.staff_id, region_id |-> k.region_id,
       time_id |-> t, amount |-> a] :
         k \in FactKeys, t \in DOMAIN dim_time, a \in Amounts }

\* the code points of the characters of a date text, for text comparison
CharCode(c) ==
    IF c = "-" THEN 45 ELSE IF c = "/" THEN 47 ELSE 48 + DigitVal(c)

\* a <= b for TEXT values (binary collation)
TextLE(a, b) ==
    LET differ == { i \in 1..Min(Len(a), Len(b)) : a[i] # b[i] }
    IN  IF differ = {} THEN Len(a) <= Len(b)
        ELSE LET k == CHOOSE i \in differ : \A j \in differ : i <= j
             IN  CharCode(a[k]) < CharCode(b[k])

\* x BETWEEN lo AND hi
Between(x, lo, hi) == TextLE(lo, x) /\ TextLE(x, hi)

\* _normalize_date_format (lines 133-165)
_normalize_date_format(date_str) ==
    IF date_str = <<>> THEN date_str
    ELSE IF /\ Len(date_str) = 10
            /\ FourDigits(date_str, 1) /\ date_str[5] = "-"
            /\ IsDigit(date_str[6]) /\ IsDigit(date_str[7])
            /\ date_str[8] = "-"
            /\ IsDigit(date_str[9]) /\ IsDigit(date_str[10])
    THEN date_str
    ELSE IF /\ FourDigits(date_str, 1)
            /\ At(date_str, 5) \in {"-", "/"}
            /\ IsDigit(At(date_str, 6))
    THEN LET n    == IF IsDigit(At(date_str, 7)) THEN 2 ELSE 1
             j    == 6 + n
             k    == IF IsDigit(At(date_str, j + 2)) THEN 2 ELSE 1
             year == SubSeq(date_str, 1, 4)
             mm   == Format02(ParseInt(SubSeq(date_str, 6, 5 + n)))
         IN  IF j = Len(date_str) + 1
             THEN year \o <<"-">> \o mm \o <<"-", "0", "1">>
             ELSE IF /\ At(date_str, j) \in {"-", "/"}
                     /\ IsDigit(At(date_str, j + 1))
                     /\ j + 1 + k = Len(date_str) + 1
             THEN year \o <<"-">> \o mm \o <<"-">>
                      \o Format02(ParseInt(SubSeq(date_str, j + 1, j + k)))
             ELSE date_str
    ELSE date_str

\* dim_map (lines 228-233): the name a row has in a dimension
dim_map == {"product", "staff", "customer", "region"}

DimName(dimension, f) ==
    CASE dimension = "product"  -> dim_product[f.product_id]
      [] dimension = "staff"    -> dim_staff[f.staff_id]
      [] dimension = "customer" -> dim_customer[f.customer_id]
      [] dimension = "region"   -> dim_region[f.region_id]

\* SUM(amount) over the rows of a bag that are in set S
RECURSIVE SumAmount(_, _)
SumAmount(B, S) ==
    IF S = {} THEN 0
    ELSE LET f == CHOOSE x \in S : TRUE
         IN  B[f] * f.amount + SumAmount(B, S \ {f})

\* SUM(CASE WHEN t.date BETWEEN lo AND hi THEN f.amount ELSE 0 END) over the
\* joined rows of one group
SumBetween(B, rows, lo, hi) ==
    SumAmount(B, { f \in rows : Between(dim_time[f.time_id], lo, hi) })

Abs(x) == IF x < 0 THEN -x ELSE x

\* the groups of the query of lines 238-250 that pass HAVING ABS(diff) > 0
DriverRowsMissingHaving(B, cs, ce, ls, le, dimension) ==
    LET names == { DimName(dimension, f) : f \in DOMAIN B }
        group(n) == { f \in DOMAIN B : DimName(dimension, f) = n }
        row(n) == LET current == SumBetween(B, group(n), cs, ce)
                      last    == SumBetween(B, group(n), ls, le)
                  IN  [dim_value |-> n, current |-> current, last |-> last,
                       diff |-> current - last]
    IN  { row(n) : n \in names }

\* the groups that pass HAVING diff > 0
DriverRowsPositiveOnly(B, cs, ce, ls, le, dimension) ==
    { r \in DriverRowsMissingHaving(B, cs, ce, ls, le, dimension) :
        r.diff > 0 }

DriverRows(B, cs, ce, ls, le, dimension) ==
    LET names == { DimName(dimension, f) : f \in DOMAIN B }
        group(n) == { f \in DOMAIN B : DimName(dimension, f) = n }
        row(n) == LET current == SumBetween(B, group(n), cs, ce)
                      last    == SumBetween(B, group(n), ls, le)
                  IN  [dim_value |-> n, current |-> current, last |-> last,
                       diff |-> current - last]
    IN  { r \in { row(n) : n \in names } : Abs(r.diff) > 0 }

\* the orders a row set may be listed in
Listings(rows) ==
    UNION { { seq \in [1..Cardinality(r) -> r] :
                \A i, j \in 1..Cardinality(r) : i # j => seq[i] # seq[j] } :
            r \in {rows} }

\* ORDER BY ABS(diff) DESC, ascending instead
OrderedAscending(seq) ==
    \A i, j \in 1..Len(seq) : i < j => Abs(seq[i].diff) <= Abs(seq[j].diff)

\* ORDER BY ABS(diff) DESC; the order of rows with equal keys is not fixed
OrderedByAbsDiffDesc(seq) ==
    \A i, j \in 1..Len(seq) : i < j => Abs(seq[i].diff) >= Abs(seq[j].diff)

\* the windows DataManager is called with
WindowArgs ==
    { [current_start |-> <<"2", "0", "2", "5", "/", "0", "7", "/", "0", "1">>,
       current_end   |-> <<"2", "0", "2", "5", "/", "7", "/", "3", "1">>,
       last_start    |-> <<"2", "0", "2", "5", "-", "0", "6">>,
       last_end      |-> strftime(datetime(2025, 6, 30))],
      [current_start |-> strftime(datetime(2025, 6, 30)),
       current_end   |-> strftime(datetime(2025, 8, 1)),
       last_start    |-> strftime(datetime(2025, 7, 1)),
       last_end      |-> strftime(datetime(2025, 7, 31))] }

\* the dimension keys DataManager is called with
DimensionArgs == dim_map \cup {"time"}

\* lines 113-128: one row is inserted into sales_fact; the rows are seeded
\* by the constructor, before the first query
InsertFact(f) ==
    /\ reply = NoReply
    /\ BagCardinality(sales_fact) < MaxFacts
    /\ sales_fact' = sales_fact (+) SetToBag({f})
    /\ reply' = NoReply
    /\ UNCHANGED <<schedulerVars, resolveVars>>

\* get_driver_analysis (lines 220-258), called on the seeded store;
\* store_fails: the query raises inside execute_query, which then returns
\* an empty DataFrame
get_driver_analysis(w, dimension, store_fails) ==
    LET current_start == _normalize_date_format(w.current_start)
        current_end   == _normalize_date_format(w.current_end)
        last_start    == _normalize_date_format(w.last_start)
        last_end      == _normalize_date_format(w.last_end)
        call == [op |-> "get_driver_analysis", windows |-> w,
                 dimension |-> dimension]
    IN  /\ reply = NoReply
        /\ IF dimension \notin dim_map
           THEN reply' = call @@ [raised |-> TRUE, rows |-> <<>>]
           ELSE LET rows == IF store_fails THEN {}
                            ELSE DriverRows(sales_fact, current_start,
                                            current_end, last_start, last_end,
                                            dimension)
                IN  IF rows = {}
                    THEN reply' = call @@ [raised |-> TRUE, rows |-> <<>>]
                    ELSE \E seq \in Listings(rows) :
                            /\ OrderedByAbsDiffDesc(seq)
                            /\ reply' = call @@ [raised |-> FALSE, rows |-> seq]
        /\ UNCHANGED <<schedulerVars, resolveVars, sales_fact>>

InitStore ==
    /\ NoSchedule
    /\ toks = <<>>
    /\ query = <<>>
    /\ pc = "idle"
    /\ processed_query = <<>>
    /\ locals = NoLocals
    /\ result = NoResult
    /\ sales_fact = EmptyBag
    /\ reply = NoReply

NextStore ==
    \/ \E f \in FactRows : InsertFact(f)
    \/ \E w \in WindowArgs, d \in DimensionArgs, x \in BOOLEAN :
          get_driver_analysis(w, d, x)

SpecStore == InitStore /\ [][NextStore]_vars

(***************************************************************************)
(* Drill-down (DataManager.get_drill_down_analysis behind                  *)
(* AnalysisController.drill_down_analysis)                                 *)
(***************************************************************************)
\* the query of lines 281-296 without its WHERE clause
DrillDownRowsUnrestricted(B, cs, ce, ls, le, primary_dimension, primary_value, drill_dimension) ==
    LET names == { DimName(drill_dimension, f) : f \in DOMAIN B }
        group(n) == { f \in DOMAIN B : DimName(drill_dimension, f) = n }
        row(n) == LET current == SumBetween(B, group(n), cs, ce)
                      last    == SumBetween(B, group(n), ls, le)
                  IN  [dim_value |-> n, current |-> current, last |-> last,
                       diff |-> current - last]
    IN  { row(n) : n \in names }

\* the groups of the query of lines 281-296: the rows of the store whose
\* primary-dimension name is primary_value, grouped by the name in the
\* drill dimension; there is no HAVING clause
DrillDownRows(B, cs, ce, ls, le, primary_dimension, primary_value, drill_dimension) ==
    LET joined == { f \in DOMAIN B :
                      DimName(primary_dimension, f) = primary_value }
        names == { DimName(drill_dimension, f) : f \in joined }
        group(n) == { f \in joined : DimName(drill_dimension, f) = n }
        row(n) == LET current == SumBetween(B, group(n), cs, ce)
                      last    == SumBetween(B, group(n), ls, le)
                  IN  [dim_value |-> n, current |-> current, last |-> last,
                       diff |-> current - last]
    IN  { row(n) : n \in names }

\* get_drill_down_analysis (lines 260-298): "raised" for the ValueError of
\* line 278, else the records of the DataFrame execute_query returns, which
\* is empty when the query raises inside execute_query (lines 182-186)
get_drill_down_analysis_rows(B, w, primary_dimension, primary_value, drill_dimension, store_fails) ==
    LET current_start == _normalize_date_format(w.current_start)
        current_end   == _normalize_date_format(w.current_end)
        last_start    == _normalize_date_format(w.last_start)
        last_end      == _normalize_date_format(w.last_end)
    IN  IF primary_dimension \notin dim_map \/ drill_dimension \notin dim_map
        THEN {[raised |-> TRUE, rows |-> <<>>]}
        ELSE IF store_fails THEN {[raised |-> FALSE, rows |-> <<>>]}
        ELSE { [raised |-> FALSE, rows |-> seq] :
                 seq \in { l \in Listings(DrillDownRows(B, current_start,
                                current_end, last_start, last_end,
                                primary_dimension, primary_value,
                                drill_dimension)) :
                             OrderedByAbsDiffDesc(l) } }

\* <<primary_dimension, primary_value, drill_dimension>> of the calls
DrillArgs ==
    { <<"customer", "C1", "product">>,
      <<"region", "R1", "staff">>,
      <<"customer", "C9", "staff">>,      \* no customer of that name
      <<"time", "C1", "staff">>,
      <<"customer", "C1", "time">> }

\* AnalysisController.drill_down_analysis (lines 1262-1293): any exception
\* of the data manager becomes {'success': False}
drill_down_analysis(w, a, store_fails) ==
    LET call == [op |-> "drill_down_analysis", windows |-> w,
                 primary_dimension |-> a[1], primary_value |-> a[2],
                 drill_dimension |-> a[3], store_failed |-> store_fails]
    IN  /\ reply = NoReply
        /\ \E out \in get_drill_down_analysis_rows(sales_fact, w, a[1], a[2],
                                                   a[3], store_fails) :
              reply' = call @@ [success |-> ~out.raised, rows |-> out.rows]
        /\ UNCHANGED <<schedulerVars, resolveVars, sales_fact>>

NextDrill ==
    \/ \E f \in FactRows : InsertFact(f)
    \/ \E w \in WindowArgs, a \in DrillArgs, x \in BOOLEAN :
          drill_down_analysis(w, a, x)

SpecDrill == InitStore /\ [][NextDrill]_vars

(***************************************************************************)
(* Period analysis (AnalysisController._perform_sql_period_analysis)       *)
(***************************************************************************)
\* get_period_comparison (lines 188-218).  The totals query always gives
\* one row; when it raises inside execute_query the DataFrame is empty.
\* The count query of lines 205-214 then decides on the ValueError.
get_period_comparison(B, w, store_fails) ==
    LET cs == _normalize_date_format(w.current_start)
        ce == _normalize_date_format(w.current_end)
        ls == _normalize_date_format(w.last_start)
        le == _normalize_date_format(w.last_end)
        current_period_sales == SumBetween(B, DOMAIN B, cs, ce)
        last_period_sales    == SumBetween(B, DOMAIN B, ls, le)
        data_count ==
            BagCardinality(
                [f \in { g \in DOMAIN B :
                           \/ Between(dim_time[g.time_id], cs, ce)
                           \/ Between(dim_time[g.time_id], ls, le) }
                    |-> B[f]])
    IN  IF (store_fails
              \/ (current_period_sales = 0 /\ last_period_sales = 0))
           /\ data_count = 0
        THEN [raised |-> TRUE]
        ELSE [raised |-> FALSE, empty |-> store_fails,
              current_period_sales |-> current_period_sales,
              last_period_sales |-> last_period_sales]

\* get_available_dimensions (lines 300-311): the keys of all_dimensions, in
\* dict order, without current_dimension
get_available_dimensions(current_dimension) ==
    SelectSeq(<<"product", "staff", "customer", "region">>,
              LAMBDA k : k # current_dimension)

\* lines 591-598; a number is the fraction num / den, den # 0
percentage_diff_zero_base(diff, last_sales) ==
    IF last_sales # 0
    THEN [kind |-> "number", num |-> diff * 100, den |-> last_sales]
    ELSE [kind |-> "number", num |-> 0, den |-> 1]

percentage_diff(diff, last_sales) ==
    IF last_sales # 0
    THEN [kind |-> "number", num |-> diff * 100, den |-> last_sales]
    ELSE IF diff > 0 THEN [kind |-> "inf"]
    ELSE IF diff < 0 THEN [kind |-> "-inf"]
    ELSE [kind |-> "number", num |-> 0, den |-> 1]

\* the DataFrames get_driver_analysis may return, {} when it raises
\* (lines 234-235, 255-256)
DriverFrames(B, w, dimension, store_fails) ==
    IF dimension \notin dim_map \/ store_fails THEN {}
    ELSE { l \in Listings(DriverRows(B, _normalize_date_format(w.current_start),
                                     _normalize_date_format(w.current_end),
                                     _normalize_date_format(w.last_start),
                                     _normalize_date_format(w.last_end),
                                     dimension)) :
             l # <<>> /\ OrderedByAbsDiffDesc(l) }

\* line 564 without head(3)
top_all(frame) == frame

\* line 564: sort_values by |diff| descending, head(3); the frame is
\* already in an order of that kind
top3(frame) == SubSeq(frame, 1, Min(3, Len(frame)))

\* lines 555-577: one entry per dimension of dims whose driver analysis
\* does not raise, in the order of dims; an entry names each of the top
\* three rows with its diff
RECURSIVE other_dimension_reference(_, _, _, _)
other_dimension_reference(B, w, dims, store_fails) ==
    IF dims = <<>> THEN {<<>>}
    ELSE LET rest == other_dimension_reference(B, w, Tail(dims), store_fails)
             entry(top) == [dimension |-> Head(dims),
                            rows |-> [i \in DOMAIN top |->
                                        [dim_value |-> top[i].dim_value,
                                         diff |-> top[i].diff]]]
         IN  UNION { IF frames = {} THEN rest
                     ELSE { <<entry(top)>> \o r :
                              top \in { top3(fr) : fr \in frames },
                              r \in rest } :
                     frames \in {DriverFrames(B, w, Head(dims), store_fails)} }

\* the store query of an analysis that raises inside execute_query
FailingArgs == {"none", "comparison", "driver", "digest"}

\* <<dimension, failing>> of the analyses: every dimension on a store that
\* answers, the default dimension with each kind of failing query
AnalyzeArgs ==
    { a \in dim_map \X FailingArgs : a[2] = "none" \/ a[1] = "product" }

\* _perform_sql_period_analysis (lines 503-647) on the windows and the
\* dimension of a parsed query; every exception becomes
\* {'success': False}
_perform_sql_period_analysis(w, dimension, failing) ==
    LET call == [op |-> "analyze", windows |-> w, dimension |-> dimension,
                 failing |-> failing]
        available_dimensions == get_available_dimensions(dimension)
    IN  /\ reply = NoReply
        /\ \E period_comparison \in
                 {get_period_comparison(sales_fact, w, failing = "comparison")},
              frames \in
                 {DriverFrames(sales_fact, w, dimension, failing = "driver")} :
           LET diff == period_comparison.current_period_sales
                          - period_comparison.last_period_sales
           IN
           IF period_comparison.raised
           THEN reply' = call @@ [success |-> FALSE, error |-> "no_data"]
           ELSE IF period_comparison.empty
           THEN reply' = call @@ [success |-> FALSE, error |-> "no_result"]
           ELSE IF frames = {}
           THEN reply' = call @@ [success |-> FALSE,
                                  error |-> "no_dimension_data"]
           ELSE \E driver_analysis \in frames,
                   reference \in other_dimension_reference(
                                     sales_fact, w, available_dimensions,
                                     failing = "digest") :
                   reply' = call @@
                     [success |-> TRUE,
                      current_sales |-> period_comparison.current_period_sales,
                      last_sales |-> period_comparison.last_period_sales,
                      diff |-> diff,
                      percentage_diff |->
                          percentage_diff(diff,
                              period_comparison.last_period_sales),
                      driver_data |-> driver_analysis,
                      available_dimensions |-> available_dimensions,
                      other_dimension_reference |-> reference]
        /\ UNCHANGED <<schedulerVars, resolveVars, sales_fact>>

\* a seeded store with sales of four products in July 2025
SeededStore ==
    LET row(p, a) == [product_id |-> p, customer_id |-> 1, staff_id |-> 1,
                      region_id |-> 1, time_id |-> 2, amount |-> a]
    IN  SetToBag({row(1, 4), row(2, -3), row(3, 2), row(4, -2)})

InitAnalyze ==
    /\ NoSchedule
    /\ toks = <<>>
    /\ query = <<>>
    /\ pc = "idle"
    /\ processed_query = <<>>
    /\ locals = NoLocals
    /\ result = NoResult
    /\ sales_fact \in {EmptyBag, SeededStore}
    /\ reply = NoReply

NextAnalyze ==
    \/ \E f \in FactRows : InsertFact(f)
    \/ \E w \in WindowArgs, a \in AnalyzeArgs :
          _perform_sql_period_analysis(w, a[1], a[2])

SpecAnalyze == InitAnalyze /\ [][NextAnalyze]_vars

(***************************************************************************)
(* Entity lookup (analyze_query lines 352-420, the                         *)
(* _analyze_specific_*_query handlers and natural_language_to_sql)         *)
(***************************************************************************)
\* the seeded names the placeholders of the dimension tables stand for
\* (lines 87-97)
name_text ==
    [C1 |-> <<"U+53F0", "U+5851">>,                          \* 台塑
     C2 |-> <<"U+53F0", "U+6CE5">>,                          \* 台泥
     S1 |-> <<"U+738B", "U+5C0F", "U+660E">>,                \* 王小明
     S2 |-> <<"U+674E", "U+7F8E", "U+9E97">>,                \* 李美麗
     P1 |-> <<"U+9AD8", "U+6548", "U+80FD", "U+7B46", "U+8A18", "U+578B",
              "U+96FB", "U+8166">>,                          \* 高效能筆記型電腦
     P2 |-> <<"U+7121", "U+7DDA", "U+85CD", "U+7259", "U+8033", "U+6A5F">>,
                                                             \* 無線藍牙耳機
     P3 |-> <<"U+4EBA", "U+9AD4", "U+5DE5", "U+5B78", "U+8FA6", "U+516C",
              "U+6905">>,                                    \* 人體工學辦公椅
     P4 |-> <<"U+667A", "U+80FD", "U+904B", "U+52D5", "U+624B", "U+9336">>,
                                                             \* 智能運動手錶
     R1 |-> <<"U+5317", cQuR>>,                              \* 北區
     R2 |-> <<"U+4E2D", cQuR>>]                              \* 中區

\* _get_dimension_values (lines 3701-3724): the names of a dimension
\* table, [] for a key outside dim_map and for a query that raises
_get_dimension_values(dimension, store_fails) ==
    IF dimension \notin dim_map \/ store_fails THEN {}
    ELSE LET table == CASE dimension = "product"  -> dim_product
                        [] dimension = "staff"    -> dim_staff
                        [] dimension = "customer" -> dim_customer
                        [] dimension = "region"   -> dim_region
         IN  { name_text[table[id]] : id \in DOMAIN table }

\* [一-龥]: the characters of the texts other than the blank, the
\* digits and the Latin letters and signs
IsCJK(c) ==
    c \notin Digits \cup {"", " ", "/", "-", "Q", "q", "v", "s"}

\* the entity patterns of lines 368, 382, 396 and 410, in the order they
\* are tried: keyword \s* ([一-龥]{2,most}) (?=\s|stops|$), and the
\* words of the test that guards each of them
entity_patterns ==
    << [dimension |-> "customer", keyword |-> <<cKe, cHu>>, most |-> 4,
        stops |-> { <<cXiao, cShou, "U+984D">>, <<cYe, "U+7E3E">> },
        words |-> { <<cKe, cHu>>, <<"c", "u", "s", "t", "o", "m", "e", "r">>,
                    <<"U+6D88", "U+8CBB">> }],
       [dimension |-> "staff", keyword |-> <<cYe, cWuS, cYuan>>, most |-> 4,
        stops |-> { <<cYe, "U+7E3E">> },
        words |-> { <<cYe, cWuS, cYuan>>, <<cXiao, cShou, cYuan>>,
                    <<"s", "t", "a", "f", "f">>, <<cYe, "U+7E3E">> }],
       [dimension |-> "product", keyword |-> <<cChan, cPin>>, most |-> 10,
        stops |-> { <<cXiao, cShou, "U+984D">> },
        words |-> { <<cChan, cPin>>, <<cShangP, cPin>>,
                    <<"p", "r", "o", "d", "u", "c", "t">> }],
       [dimension |-> "region", keyword |-> <<cDi, cQuR>>, most |-> 4,
        stops |-> { <<cXiao, cShou, "U+984D">> },
        words |-> { <<cDi, cQuR>>, <<cQuR, cYuR>>,
                    <<"r", "e", "g", "i", "o", "n">>,
                    <<cDi, "U+65B9">> }] >>

\* one entity pattern at position i: the keyword, the longest run of
\* blanks, then the longest run of 2..most CJK characters that is followed
\* by the end of the text, a blank or a stop word
entity_pattern(p, s, i) ==
    LET k == Len(p.keyword)
        blanks == CHOOSE b \in 0..Len(s) :
                     /\ \A j \in 1..b : At(s, i + k + j - 1) = " "
                     /\ At(s, i + k + b) # " "
        from == i + k + blanks
        ahead(j) == \/ At(s, j) \in {"", " "}
                    \/ \E w \in p.stops :
                          \A t \in 1..Len(w) : At(s, j + t - 1) = w[t]
        fits == { n \in 2..p.most :
                    /\ \A j \in 0..(n - 1) : IsCJK(At(s, from + j))
                    /\ ahead(from + n) }
    IN  IF (\A t \in 1..k : At(s, i + t - 1) = p.keyword[t]) /\ fits # {}
        THEN LET n == CHOOSE m \in fits : \A l \in fits : l <= m
             IN  [len |-> k + blanks + n,
                  groups |-> SubSeq(s, from, from + n - 1)]
        ELSE NoMatch

\* re.findall of an entity pattern: the candidates, left to right
RECURSIVE entity_findall(_, _, _)
entity_findall(p, s, i) ==
    IF i > Len(s) THEN <<>>
    ELSE LET m == entity_pattern(p, s, i)
         IN  IF m.len > 0
             THEN <<m.groups>> \o entity_findall(p, s, i + m.len)
             ELSE entity_findall(p, s, i + 1)

\* natural_language_to_sql (lines 1359-1984) on a text without digits, Q
\* and the verbs of query_patterns, so that no time is parsed and no
\* pattern of query_patterns matches.  The query is described by the
\* dimension its rows are grouped by ("other": rows that carry no name of
\* one dimension), by whether its columns include total_sales and
\* total_quantity, and by whether it reads sales_fact or dim_product.
natural_language_to_sql(natural_query) ==
    LET names(d)  == _get_dimension_values(d, FALSE)
        any(ws)   == AnyWordIn(ws, natural_query)
        facts(d, t) == [column |-> d, totals |-> t, facts |-> TRUE]
        time_words   == { <<cNian>>, <<cYue>>, <<cJi>>,
                          <<"U+6642", "U+9593">>, <<"U+65E5">>,
                          <<"U+6BCF", "U+5929">> }
        amount_   == <<"a", "m", "o", "u", "n", "t">>
        quantity_ == <<"q", "u", "a", "n", "t", "i", "t", "y">>
        staff_words_ == entity_patterns[2].words
    IN  IF any(names("customer")) THEN facts("customer", TRUE)
        ELSE IF any(names("staff")) THEN facts("staff", TRUE)
        ELSE IF any(names("product")) THEN facts("product", TRUE)
        ELSE IF any(names("region")) THEN facts("region", TRUE)
        ELSE IF any({ <<"U+6578", "U+91CF">>, <<"U+4EF6", "U+6578">>,
                      <<"U+500B", "U+6578">>, quantity_ })
        THEN facts("product", FALSE)
        ELSE IF any({ <<"U+91D1", "U+984D">>, <<cXiao, cShou, "U+984D">>,
                      <<"U+71DF", cYe, "U+984D">>, <<"U+6536", "U+5165">>,
                      amount_ })
                /\ ~any(time_words \cup staff_words_)
        THEN facts("product", FALSE)
        ELSE IF any(time_words) THEN facts("other", FALSE)
        ELSE IF any(entity_patterns[3].words) THEN facts("product", TRUE)
        ELSE IF any(entity_patterns[1].words) THEN facts("customer", FALSE)
        ELSE IF any(staff_words_) THEN facts("staff", TRUE)
        ELSE IF any(entity_patterns[4].words) THEN facts("region", TRUE)
        ELSE IF any({ <<cXiao, cShou>>, <<"U+91D1", "U+984D">>,
                      <<cYe, "U+7E3E">>, <<"s", "a", "l", "e", "s">>,
                      amount_, quantity_ })
        THEN facts("other", FALSE)
        ELSE [column |-> "product", totals |-> FALSE, facts |-> FALSE]

\* the _analyze_specific_*_query handlers (lines 3521-3699): exists is
\* False for a customer name _check_customer_exists does not find and for
\* an empty result of the generated query; a result without the columns
\* the handler reads raises KeyError, which becomes {'success': False}
_analyze_specific_query(B, dimension, query_, name) ==
    LET sql  == natural_language_to_sql(query_)
        data == IF sql.column \in dim_map
                THEN { [name |-> n,
                        total_sales |->
                            SumAmount(B, { f \in DOMAIN B :
                                             DimName(sql.column, f) = n })] :
                       n \in { DimName(sql.column, f) : f \in DOMAIN B } }
                ELSE {}
        empty == IF sql.facts THEN B = EmptyBag ELSE FALSE
    IN  IF dimension = "customer"
           /\ name \notin _get_dimension_values("customer", FALSE)
        THEN [success |-> TRUE, exists |-> FALSE, data |-> {}]
        ELSE IF empty
        THEN [success |-> TRUE, exists |-> FALSE, data |-> {}]
        ELSE IF sql.column = dimension /\ sql.totals
        THEN [success |-> TRUE, exists |-> TRUE, data |-> data]
        ELSE [success |-> FALSE, exists |-> FALSE, data |-> {}]

\* analyze_query, lines 352-420: the first candidate of the first entity
\* pattern that has one goes to the handler of its dimension; a text
\* without a candidate goes on to the period analysis
RECURSIVE entity_route(_, _, _)
entity_route(B, query_, k) ==
    IF k > Len(entity_patterns) THEN [route |-> "general"]
    ELSE LET p == entity_patterns[k]
             matches == IF AnyWordIn(p.words, query_)
                        THEN entity_findall(p, query_, 1) ELSE <<>>
         IN  IF matches # <<>>
             THEN [route |-> p.dimension, candidate |-> matches[1]]
                     @@ _analyze_specific_query(B, p.dimension, query_,
                                                matches[1])
             ELSE entity_route(B, query_, k + 1)

\* the query texts of entity lookups: keywords, names and suffix words
EntityTokens ==
    { entity_patterns[k].keyword : k \in 1..4 }
        \cup { name_text.S1, name_text.C1,
               <<"U+674E", cSi>>,                             \* 李四
               <<cYe, "U+7E3E">>,                             \* 業績
               <<cXiao, cShou, "U+984D">>,                    \* 銷售額
               <<" ">> }

InitEntity ==
    /\ NoSchedule
    /\ toks \in UNION { [1..n -> EntityTokens] : n \in 0..MaxTokens }
    /\ query = Flatten(toks)
    /\ pc = "start"
    /\ processed_query = <<>>
    /\ locals = NoLocals
    /\ result = NoResult
    /\ sales_fact \in {EmptyBag, SeededStore}
    /\ reply = NoReply

analyze_query ==
    /\ pc = "start"
    /\ reply' = [op |-> "analyze_query"] @@ entity_route(sales_fact, query, 1)
    /\ pc' = "done"
    /\ UNCHANGED <<schedulerVars, toks, query, processed_query, locals, result, sales_fact>>

SpecEntity == InitEntity /\ [][analyze_query]_vars

\* DataManager.get_available_dimensions (lines 300-311) as an operation:
\* the key is not looked up in dim_map and no exception is raised
available_dimensions(current_dimension) ==
    /\ reply = NoReply
    /\ reply' = [op |-> "get_available_dimensions",
                 dimension |-> current_dimension, raised |-> FALSE,
                 value |-> get_available_dimensions(current_dimension)]
    /\ UNCHANGED <<schedulerVars, resolveVars, sales_fact>>

\* AnalysisController._get_dimension_values (lines 3701-3724) as an
\* operation: [] is returned for a key outside dim_map
dimension_values(dimension, store_fails) ==
    /\ reply = NoReply
    /\ reply' = [op |-> "_get_dimension_values", dimension |-> dimension,
                 raised |-> FALSE,
                 value |-> _get_dimension_values(dimension, store_fails)]
    /\ UNCHANGED <<schedulerVars, resolveVars, sales_fact>>

\* every operation that takes a dimension key, on the seeded store
NextDimension ==
    \/ \E f \in FactRows : InsertFact(f)
    \/ \E w \in WindowArgs, d \in DimensionArgs, x \in BOOLEAN :
          get_driver_analysis(w, d, x)
    \/ \E w \in WindowArgs, a \in DrillArgs, x \in BOOLEAN :
          drill_down_analysis(w, a, x)
    \/ \E d \in DimensionArgs : available_dimensions(d)
    \/ \E d \in DimensionArgs, x \in BOOLEAN : dimension_values(d, x)

SpecDimension == InitStore /\ [][NextDimension]_vars

\* the texts of the classifier: keywords of the four dimensions, a blank
\* and a year; _parse_query (lines 28-343) is run on each of them
ClassifyTokens ==
    { <<cChan, cPin>>, <<cShangP, cPin>>,            \* 產品, 商品
      <<cYe, cWuS, cYuan>>, <<cXiao, cShou, cYuan>>, \* 業務員, 銷售員
      <<cKe, cHu>>, <<"c", "l", "i", "e", "n", "t">>,  \* 客戶, client
      <<cDi, cQuR>>, <<cQuR, cYuR>>,                 \* 地區, 區域
      <<" ">>, <<"2", "0", "2", "5", cNian>> }

InitClassify ==
    /\ NoSchedule
    /\ toks \in UNION { [1..n -> ClassifyTokens] : n \in 0..MaxTokens }
    /\ query = Flatten(toks)
    /\ pc = "start"
    /\ processed_query = <<>>
    /\ locals = NoLocals
    /\ result = NoResult
    /\ sales_fact = EmptyBag
    /\ reply = NoReply

SpecClassify == InitClassify /\ [][Next]_vars

\* resolve as its callers use it: the caller has a reference date of its
\* own (reply.reference_date), _parse_query(query) takes the text alone
\* and sets today itself (line 34)
ReferenceDates == { datetime(2025, 8, 31), datetime(2026, 2, 15) }

InitReference ==
    /\ NoSchedule
    /\ toks \in TokenLists
    /\ query = Flatten(toks)
    /\ pc = "start"
    /\ processed_query = <<>>
    /\ locals = NoLocals
    /\ result = NoResult
    /\ sales_fact = EmptyBag
    /\ reply \in { [op |-> "resolve", reference_date |-> d] :
                   d \in ReferenceDates }

SpecReference == InitReference /\ [][Next]_vars

\* a session of the controller: _parse_query is called, called again with
\* the same text, and analyses and drill-downs are made in between
SessionTokens ==
    { <<"Q", "1">>, <<cJi>>, <<"2", "0", "2", "5", cNian>>,
      <<cYe, cWuS, cYuan>> }

InitSession ==
    /\ NoSchedule
    /\ toks \in UNION { [1..n -> SessionTokens] : n \in 0..MaxTokens }
    /\ query = Flatten(toks)
    /\ pc = "start"
    /\ processed_query = <<>>
    /\ locals = NoLocals
    /\ result = NoResult
    /\ sales_fact \in {EmptyBag, SeededStore}
    /\ reply = NoReply

\* the next call of _parse_query(query); the caller keeps what the call
\* before gave (first, first_pc) and the call made last (after)
Again ==
    /\ pc \in {"done", "raised"}
    /\ reply' = [op |-> "resolve", first |-> result, first_pc |-> pc,
                 after |-> reply.op]
    /\ pc' = "start"
    /\ processed_query' = <<>>
    /\ locals' = NoLocals
    /\ result' = NoResult
    /\ UNCHANGED <<schedulerVars, toks, query, sales_fact>>

NextSession ==
    \/ Next
    \/ Again
    \/ \E w \in WindowArgs :
          drill_down_analysis(w, <<"customer", "C1", "product">>, FALSE)
    \/ \E w \in WindowArgs : _perform_sql_period_analysis(w, "product", "none")

SpecSession == InitSession /\ [][NextSession]_vars

\* the substitutions of lines 59-70, one by one: the replace calls of the
\* month loop, then those of the quarter loop
Substitutions ==
    [k \in 1..(Len(month_mapping) + Len(quarter_mapping)) |->
        IF k <= Len(month_mapping)
        THEN [old |-> <<cNian>> \o month_mapping[k][1],
              new |-> <<cNian>> \o month_mapping[k][2] \o <<cYue>>]
        ELSE [old |-> quarter_mapping[k - Len(month_mapping)][1],
              new |-> quarter_mapping[k - Len(month_mapping)][2]]]

\* the texts the substitutions are applied to
NormalizerTokens ==
    { <<cNian>>, <<cShi>>, <<cYi, cYue>>, <<cYue>>, <<cJi>>, <<"q">>,
      <<"1">> }

\* the characters of these texts and of what the substitutions make of them
NormalizerAlphabet == { cNian, cShi, cYi, cYue, cJi, "q", "1", "0", "Q" }

\* the substitutions that can find their source in such a text; the place
\* of the other ones in the order changes nothing
Applicable ==
    { k \in DOMAIN Substitutions :
        \A i \in 1..Len(Substitutions[k].old) :
            Substitutions[k].old[i] \in NormalizerAlphabet }

InitNormalizer ==
    /\ NoSchedule
    /\ toks \in UNION { [1..n -> NormalizerTokens] : n \in 0..MaxTokens }
    /\ query = Flatten(toks)
    /\ pc = "start"
    /\ processed_query = query
    /\ locals = [applied |-> {}]
    /\ result = NoResult
    /\ sales_fact = EmptyBag
    /\ reply = NoReply

\* one replace call (lines 61, 70), the calls taken in any order
ApplySubstitution(k) ==
    /\ pc = "start"
    /\ k \in Applicable \ locals.applied
    /\ processed_query' = Replace(processed_query, Substitutions[k].old,
                                  Substitutions[k].new)
    /\ locals' = [applied |-> locals.applied \cup {k}]
    /\ pc' = IF locals'.applied = Applicable THEN "normalized" ELSE "start"
    /\ UNCHANGED <<schedulerVars, toks, query, result, storeVars>>

NextNormalizer == \E k \in DOMAIN Substitutions : ApplySubstitution(k)

SpecNormalizer == InitNormalizer /\ [][NextNormalizer]_vars

(***************************************************************************)
(* The summary of an analysis, _generate_analysis_summary (lines           *)
(* 1986-2114).  The text is kept as its wording: the words of the trend,   *)
(* of the change, of the contributors and of the advice, with a blank for  *)
(* the numbers, names and markup between them.                             *)
(***************************************************************************)
\* percentage_diff > n, for a quotient, float('inf') or float('-inf')
PercentAbove(p, n) ==
    IF p.kind = "inf" THEN TRUE
    ELSE IF p.kind = "-inf" THEN FALSE
    ELSE IF p.den > 0 THEN p.num > n * p.den ELSE p.num < n * p.den

\* abs(percentage_diff)
PercentAbs(p) ==
    IF p.kind \in {"inf", "-inf"} THEN [kind |-> "inf"]
    ELSE [kind |-> "number", num |-> Abs(p.num), den |-> Abs(p.den)]

_generate_analysis_summary(current_sales, last_sales, diff, percentage_diff_, driver_data) ==
    LET grow     == <<"U+6210", "U+9577">>                    \* 成長
        fall     == <<"U+4E0B", "U+6ED1">>                    \* 下滑
        flat     == <<"U+6301", "U+5E73">>                    \* 持平
        large    == <<"U+5927", "U+5E45">>                    \* 大幅
        notable  == <<"U+660E", "U+986F">>                    \* 明顯
        slight   == <<"U+5C0F", "U+5E45">>                    \* 小幅
        more     == <<"U+589E", "U+52A0">>                    \* 增加
        less     == <<"U+6E1B", "U+5C11">>                    \* 減少
        intensity(p) == IF PercentAbove(p, 50) THEN large
                        ELSE IF PercentAbove(p, 20) THEN notable
                        ELSE slight
        trend == IF diff > 0 THEN grow ELSE IF diff < 0 THEN fall ELSE flat
        trend_intensity ==
            IF diff > 0 THEN intensity(percentage_diff_)
            ELSE IF diff < 0 THEN intensity(PercentAbs(percentage_diff_))
            ELSE <<>>
        positive_contributors ==
            SelectSeq(driver_data, LAMBDA item : item.diff > 0)
        negative_contributors ==
            SelectSeq(driver_data, LAMBDA item : item.diff < 0)
        top_contributors ==
            (IF positive_contributors # <<>>
             THEN <<" ", "U+8CA2", "U+737B", "U+4E86">>       \* 貢獻了
             ELSE <<>>)
            \o (IF negative_contributors # <<>>
                THEN <<" ">> \o less \o <<"U+4E86">>          \* 減少了
                ELSE <<>>)
        advice ==
            IF diff > 0 \/ negative_contributors # <<>>
            THEN <<>>
            ELSE <<" ">> \o grow \o <<"U+6A5F", "U+6703">>    \* 成長機會
        suggestions ==
            IF negative_contributors # <<>>
            THEN <<" ", cYe, "U+7E3E">> \o fall               \* 業績下滑
            ELSE <<>>
    IN  [trend_intensity |-> trend_intensity,
         summary |->
            <<cYe, "U+7E3E">> \o trend_intensity \o trend
               \o <<" ">> \o (IF diff > 0 THEN more ELSE less)
               \o top_contributors \o advice \o suggestions]

\* the totals and the driver rows a summary is made of: rows of delta
\* other than 0, by |delta| descending, which add up to the delta of the
\* totals
SalesArgs == {-5, 0, 4, 5, 6, 10, 15}

SummaryDrivers(diff) ==
    { rows \in { << [dim_value |-> "P1", diff |-> diff] >>,
                 << [dim_value |-> "P1", diff |-> diff + 20],
                    [dim_value |-> "P2", diff |-> -20] >>,
                 << [dim_value |-> "P2", diff |-> -20] >>,
                 << [dim_value |-> "P1", diff |-> diff - 30],
                    [dim_value |-> "P2", diff |-> 30] >> } :
        /\ \A i \in 1..Len(rows) : rows[i].diff # 0
        /\ diff = IF Len(rows) = 1 THEN rows[1].diff
                  ELSE rows[1].diff + rows[2].diff
        /\ \A i \in 1..(Len(rows) - 1) :
              Abs(rows[i].diff) >= Abs(rows[i + 1].diff) }

InitSummary ==
    /\ NoSchedule
    /\ toks = <<>>
    /\ query = <<>>
    /\ pc = "start"
    /\ processed_query = <<>>
    /\ \E current_sales \in SalesArgs, last_sales \in SalesArgs :
          \E driver_data \in SummaryDrivers(current_sales - last_sales) :
             locals = [current_sales |-> current_sales,
                       last_sales |-> last_sales,
                       driver_data |-> driver_data]
    /\ result = NoResult
    /\ sales_fact = EmptyBag
    /\ reply = NoReply

\* lines 580-610 of _perform_sql_period_analysis: the delta, the percent
\* delta and the summary of the totals and driver rows
summarize ==
    LET diff == locals.current_sales - locals.last_sales
        pct  == percentage_diff(diff, locals.last_sales)
    IN  /\ pc = "start"
        /\ reply' = [op |-> "summary", current_sales |-> locals.current_sales,
                     last_sales |-> locals.last_sales, diff |-> diff,
                     percentage_diff |-> pct]
                     @@ _generate_analysis_summary(locals.current_sales,
                                                   locals.last_sales, diff, pct,
                                                   locals.driver_data)
        /\ pc' = "done"
        /\ UNCHANGED <<schedulerVars, toks, query, processed_query, locals, result,
                       sales_fact>>

SpecSummary == InitSummary /\ [][summarize]_vars

(***************************************************************************)
(* The quarter path of analyze_query (lines 422-431, 649-770) and the      *)
(* quarter queries of DataManager (lines 412-462)                          *)
(***************************************************************************)
\* the columns year and quarter of a dim_time row (lines 106-108)
time_quarter(id) ==
    <<ParseInt(SubSeq(dim_time[id], 1, 4)),
      (ParseInt(SubSeq(dim_time[id], 6, 7)) - 1) \div 3 + 1>>

\* get_quarter_comparison (lines 412-431): one row per quarter that has a
\* fact row, ordered by year and quarter; ValueError for no row
get_quarter_comparison(B, current_year, current_quarter, compare_year, compare_quarter) ==
    LET keys == { <<current_year, current_quarter>>,
                  <<compare_year, compare_quarter>> }
        group(k) == { f \in DOMAIN B : time_quarter(f.time_id) = k }
        found == { k \in keys : group(k) # {} }
        row(k) == [year |-> k[1], quarter |-> k[2],
                   total_sales |-> SumAmount(B, group(k))]
        before(a, b) == a[1] < b[1] \/ (a[1] = b[1] /\ a[2] <= b[2])
    IN  IF found = {} THEN [raised |-> TRUE, rows |-> <<>>]
        ELSE LET first == CHOOSE k \in found : \A l \in found : before(k, l)
             IN  [raised |-> FALSE,
                  rows |-> <<row(first)>>
                              \o IF found = {first} THEN <<>>
                                 ELSE <<row(CHOOSE k \in found : k # first)>>]

\* get_quarter_driver_analysis (lines 433-462): the frames it may return,
\* {} when it raises; the values with sales above 0 in the quarter, by
\* sales descending
get_quarter_driver_analysis(B, year, quarter, dimension) ==
    LET rows == { f \in DOMAIN B : time_quarter(f.time_id) = <<year, quarter>> }
        sales(n) == SumAmount(B, { f \in rows : DimName(dimension, f) = n })
        kept == { [dim_value |-> n, sales |-> sales(n)] :
                  n \in { m \in { DimName(dimension, f) : f \in rows } :
                            sales(m) > 0 } }
    IN  IF dimension \notin dim_map THEN {}
        ELSE { seq \in Listings(kept) :
                 \A i \in 1..(Len(seq) - 1) : seq[i].sales >= seq[i + 1].sales }

\* _extract_quarter_info (lines 718-770), on the raw query
_extract_quarter_info(query_) ==
    LET quarter_matches  == FindAll("quarter", query_)
        relative_matches == FindAll("relative", query_)
        year_(m)    == ParseInt(m[1])
        quarter_(m) == DigitVal(m[2][1])
        info(cy, cq, py, pq) ==
            [found |-> TRUE, current |-> <<cy, cq>>, compare |-> <<py, pq>>]
    IN  IF Len(quarter_matches) >= 2
        THEN info(year_(quarter_matches[1]), quarter_(quarter_matches[1]),
                  year_(quarter_matches[2]), quarter_(quarter_matches[2]))
        ELSE IF Len(quarter_matches) = 1 /\ Len(relative_matches) >= 1
        THEN LET current_year  == year_(quarter_matches[1])
                 relative_time == relative_matches[1][1]
             IN  info(current_year, quarter_(quarter_matches[1]),
                      IF relative_time = <<cQu, cNian>> THEN current_year - 1
                      ELSE IF relative_time = <<cQian, cNian>>
                      THEN current_year - 2
                      ELSE current_year,
                      quarter_(relative_matches[1]))
        ELSE IF Len(quarter_matches) = 1
        THEN LET current_year    == year_(quarter_matches[1])
                 current_quarter == quarter_(quarter_matches[1])
             IN  IF current_quarter = 1
                 THEN info(current_year, 1, current_year - 1, 4)
                 ELSE info(current_year, current_quarter, current_year,
                           current_quarter - 1)
        ELSE [found |-> FALSE]

\* line 426: "Q" in query and ("季" in query or "quarter" in
\* query.lower()); the texts of the model hold no Latin word
IsQuarterQuery(query_) ==
    Contains(query_, <<"Q">>) /\ Contains(query_, <<cJi>>)

\* the windows of parsed, as they are passed on and reported
ParsedWindows ==
    [current_start |-> result.current_start,
     current_end |-> result.current_end,
     last_start |-> result.last_start, last_end |-> result.last_end]

\* _analyze_quarter_query (lines 649-716), called at line 427: an exception
\* (ValueError of a query, IndexError of .iloc[0] on an empty selection)
\* becomes {'success': False}
_analyze_quarter_query ==
    LET call == [op |-> "analyze_quarter", windows |-> ParsedWindows,
                 dimension |-> result.dimension]
        failure == call @@ [success |-> FALSE]
        quarter_info == _extract_quarter_info(query)
    IN  /\ pc = "done"
        /\ reply = NoReply
        /\ IsQuarterQuery(query)
        /\ IF ~quarter_info.found THEN reply' = failure
           ELSE \E quarter_data \in
                     {get_quarter_comparison(sales_fact,
                          quarter_info.current[1], quarter_info.current[2],
                          quarter_info.compare[1], quarter_info.compare[2])},
                   frames \in
                     {get_quarter_driver_analysis(sales_fact,
                          quarter_info.current[1], quarter_info.current[2],
                          result.dimension)} :
                LET of_year(y) ==
                        SelectSeq(quarter_data.rows, LAMBDA r : r.year = y)
                    current_rows == of_year(quarter_info.current[1])
                    compare_rows == of_year(quarter_info.compare[1])
                IN  IF quarter_data.raised \/ frames = {}
                       \/ current_rows = <<>> \/ compare_rows = <<>>
                    THEN reply' = failure
                    ELSE \E driver_analysis \in frames :
                         LET current_sales == current_rows[1].total_sales
                             compare_sales == compare_rows[1].total_sales
                             diff == current_sales - compare_sales
                         IN  reply' = call @@
                               [success |-> TRUE,
                                current_sales |-> current_sales,
                                last_sales |-> compare_sales,
                                diff |-> diff,
                                percentage_diff |->
                                    percentage_diff(diff, compare_sales),
                                current |-> quarter_info.current,
                                compare |-> quarter_info.compare,
                                driver_data |-> driver_analysis]
        /\ UNCHANGED <<schedulerVars, resolveVars, sales_fact>>

\* _analyze_period_query (lines 446-452), called at line 430
_analyze_period_query ==
    /\ pc = "done"
    /\ ~IsQuarterQuery(query)
    /\ _perform_sql_period_analysis(ParsedWindows, result.dimension, "none")

\* the texts of quarter analyses
QuarterPathTokens ==
    YearQuarterTokens \cup RelativeQuarterTokens \cup MarkerTokens
        \cup { <<"2", "0", "2", "5", cNian, "Q", "3">>,       \* 2025年Q3
               <<"2", "0", "2", "5", "/", "0", "7">>, <<" ">> }

\* a store with sales in the second and the third quarter of 2025
TwoQuarterStore ==
    SetToBag({ [product_id |-> 1, customer_id |-> 1, staff_id |-> 1,
                region_id |-> 1, time_id |-> 1, amount |-> 5],
               [product_id |-> 1, customer_id |-> 1, staff_id |-> 1,
                region_id |-> 1, time_id |-> 2, amount |-> 7],
               [product_id |-> 2, customer_id |-> 1, staff_id |-> 1,
                region_id |-> 1, time_id |-> 3, amount |-> 2] })

InitQuarter ==
    /\ NoSchedule
    /\ toks \in UNION { [1..n -> QuarterPathTokens] : n \in 0..MaxTokens }
    /\ query = Flatten(toks)
    /\ pc = "start"
    /\ processed_query = <<>>
    /\ locals = NoLocals
    /\ result = NoResult
    /\ sales_fact \in {EmptyBag, SeededStore, TwoQuarterStore}
    /\ reply = NoReply

NextQuarter == Next \/ _analyze_quarter_query \/ _analyze_period_query

SpecQuarter == InitQuarter /\ [][NextQuarter]_vars

(***************************************************************************)
(* Vocabulary of the properties: calendar windows written out as           *)
(* 'YYYY-MM-DD' strings, and the mentions a token list is made of          *)
(***************************************************************************)
Iso(y, m, d) ==
    << DigitChar(y \div 1000), DigitChar((y \div 100) % 10),
       DigitChar((y \div 10) % 10), DigitChar(y % 10), "-",
       DigitChar(m \div 10), DigitChar(m % 10), "-",
       DigitChar(d \div 10), DigitChar(d % 10) >>

Window(s, e) == [start |-> s, end |-> e]

MonthOf(y, m) == Window(Iso(y, m, 1), Iso(y, m, DaysInMonth(y, m)))

MonthBefore(y, m) == IF m = 1 THEN MonthOf(y - 1, 12) ELSE MonthOf(y, m - 1)

QuarterOf(y, q) ==
    Window(Iso(y, 3 * q - 2, 1), Iso(y, 3 * q, IF q \in {1, 4} THEN 31 ELSE 30))

QuarterBefore(y, q) == IF q = 1 THEN QuarterOf(y - 1, 4) ELSE QuarterOf(y, q - 1)

YearOf(y) == Window(Iso(y, 1, 1), Iso(y, 12, 31))

Current(r) == Window(r.current_start, r.current_end)

Comparison(r) == Window(r.last_start, r.last_end)

\* the tokens of a list that are not blanks or dimension words
TemporalTokens(ts) == SelectSeq(ts, LAMBDA t : t \notin OtherTokens)

Returned == pc = "done"

Finished == pc \in {"done", "raised"}

(***************************************************************************)
(* C1  grammar precedence                                                  *)
(***************************************************************************)
GrammarOrder ==
    <<"slash_dash", "year", "year_month", "quarter_family", "fallback">>

\* grammar g has at least one occurrence in the normalized text
HasMatch(g, pq) ==
    CASE g = "slash_dash"     -> FindAll("slash_dash", pq) # <<>>
      [] g = "year"           -> FindAll("year", pq) # <<>>
      [] g = "year_month"     -> FindAll("year_month", pq) # <<>>
      [] g = "quarter_family" -> Contains(pq, <<"Q">>) \/ Contains(pq, <<cJi>>)
      [] g = "fallback"       -> TRUE

\* the position in GrammarOrder of the first grammar with a match
Winner(pq) ==
    IF HasMatch(GrammarOrder[1], pq) THEN 1
    ELSE IF HasMatch(GrammarOrder[2], pq) THEN 2
    ELSE IF HasMatch(GrammarOrder[3], pq) THEN 3
    ELSE IF HasMatch(GrammarOrder[4], pq) THEN 4
    ELSE 5

\* what grammar g alone makes of the text
GrammarAlone(g, pq) ==
    CASE g = "slash_dash" ->
            LET ms == FindAll("slash_dash", pq)
            IN  IF Len(ms) >= 2 THEN TwoMonths(ms, "slash2")
                ELSE OneMonth(ms, "slash1")
      [] g = "year" ->
            LET ys == FindAll("year", pq)
            IN  IF Len(ys) >= 2 THEN TwoYears(ys) ELSE OneYear(ys)
      [] g = "year_month" ->
            LET ms == FindAll("year_month", pq)
            IN  IF Len(ms) >= 2 THEN TwoMonths(ms, "month2")
                ELSE OneMonth(ms, "month1")
      [] g = "quarter_family" -> QuarterFamily(pq)
      [] g = "fallback" -> DefaultLocals

\* the grammar a token of the vocabulary belongs to (5: none)
TokenGrammar(t) ==
    IF t \in SlashTokens THEN 1
    ELSE IF t \in YearTokens THEN 2
    ELSE IF t \in MonthTokens THEN 3
    ELSE IF t \in OtherTokens THEN 5
    ELSE 4

Blank == <<" ">>

\* token i stands alone: blanks or the ends of the text around it
Isolated(ts, i) ==
    /\ i = 1 \/ ts[i - 1] = Blank
    /\ i = Len(ts) \/ ts[i + 1] = Blank

Without(ts, i) == SubSeq(ts, 1, i - 1) \o SubSeq(ts, i + 1, Len(ts))

\* C1: the cascade ends with what the first grammar of GrammarOrder that
\* has a match makes of the text, and taking a free-standing token of a
\* lower-priority grammar out of the text changes nothing of the outcome
\* (windows, label, or the exception).
C1_FirstGrammarWins ==
    Finished =>
        LET w == Winner(processed_query)
        IN  /\ locals = GrammarAlone(GrammarOrder[w], processed_query)
            /\ \A i \in 1..Len(toks) :
                  (TokenGrammar(toks[i]) > w /\ Isolated(toks, i))
                  => ParseTime(NormalizeText(Flatten(Without(toks, i))))
                        = locals

\* a month of the slash grammar won over a free-standing quarter mention
C1_Witness ==
    /\ Returned
    /\ locals.branch = "slash1"
    /\ \E i \in 1..Len(toks) :
          toks[i] \in PureQuarterTokens /\ Isolated(toks, i)

(***************************************************************************)
(* C2, C3  year-qualified quarter mentions                                 *)
(***************************************************************************)
\* the year and the quarter digit written in a YYYY年Q<d> token, the
\* quarter digit of a relative-year token and of a Q<d>-like token
YearIn(t) == ParseInt(SubSeq(t, 1, 4))

QuarterIn(t) == DigitVal(t[Len(t)])

\* the years a relative-year word goes back from the year of the first
\* mention: 去年 1, 前年 2, 今年 0
YearsBack(t) ==
    IF t[1] = cQu THEN 1 ELSE IF t[1] = cQian THEN 2 ELSE 0

YearQuarterThenRelative(ts) ==
    /\ Len(ts) = 2
    /\ ts[1] \in YearQuarterTokens
    /\ ts[2] \in RelativeQuarterTokens

\* C2: a text whose temporal tokens are one YYYY年Q<d> followed by a
\* relative-year Q<e> resolves to quarter d of year YYYY against quarter e
\* of the year YYYY - 1 (去年), YYYY - 2 (前年) or YYYY (今年).
C2_RelativeYearQuarter ==
    LET ts == TemporalTokens(toks)
    IN  (Finished /\ YearQuarterThenRelative(ts)) =>
            /\ Returned
            /\ Current(result) = QuarterOf(YearIn(ts[1]), QuarterIn(ts[1]))
            /\ Comparison(result) =
                  QuarterOf(YearIn(ts[1]) - YearsBack(ts[2]), QuarterIn(ts[2]))

\* C3: a text whose only temporal tokens are YYYY年Q<d> mentions resolves
\* with the years written in the text: two mentions give the two named
\* quarters, a single mention gives its quarter against the quarter before.
C3_YearQuarterMentions ==
    LET ts == TemporalTokens(toks)
    IN  (Finished /\ Len(ts) \in {1, 2}
            /\ \A i \in 1..Len(ts) : ts[i] \in YearQuarterTokens) =>
            /\ Returned
            /\ Current(result) = QuarterOf(YearIn(ts[1]), QuarterIn(ts[1]))
            /\ Comparison(result) =
                  IF Len(ts) = 2
                  THEN QuarterOf(YearIn(ts[2]), QuarterIn(ts[2]))
                  ELSE QuarterBefore(YearIn(ts[1]), QuarterIn(ts[1]))

(***************************************************************************)
(* C4  quarter mentions without a year                                     *)
(***************************************************************************)
InRangeQuarterTokens == { t \in PureQuarterTokens : QuarterIn(t) \in 1..4 }

\* C4: a text whose only temporal tokens are one or two Q<d> mentions
\* without a year, d in 1..4, resolves in the year of the reference date:
\* two mentions give the two named quarters of that year, one mention gives
\* its quarter against the quarter before (Q4 of the year before for Q1);
\* "Q1" gives [2025-01-01, 2025-03-31] vs [2024-10-01, 2024-12-31].
C4_PureQuarterMentions ==
    LET ts == TemporalTokens(toks)
    IN  /\ (Finished /\ Len(ts) \in {1, 2}
               /\ \A i \in 1..Len(ts) : ts[i] \in InRangeQuarterTokens) =>
               /\ Returned
               /\ Current(result) = QuarterOf(today.y, QuarterIn(ts[1]))
               /\ Comparison(result) =
                     IF Len(ts) = 2
                     THEN QuarterOf(today.y, QuarterIn(ts[2]))
                     ELSE QuarterBefore(today.y, QuarterIn(ts[1]))
        /\ (Finished /\ toks = << <<"Q", "1">> >>) =>
               /\ Returned
               /\ result.current_start
                     = <<"2", "0", "2", "5", "-", "0", "1", "-", "0", "1">>
               /\ result.current_end
                     = <<"2", "0", "2", "5", "-", "0", "3", "-", "3", "1">>
               /\ result.last_start
                     = <<"2", "0", "2", "4", "-", "1", "0", "-", "0", "1">>
               /\ result.last_end
                     = <<"2", "0", "2", "4", "-", "1", "2", "-", "3", "1">>

\* a lone Q1 mention was resolved, rolling back to Q4 of the year before
C4_Witness ==
    /\ Returned
    /\ TemporalTokens(toks) = << <<"Q", "1">> >>
    /\ Len(toks) > 1
    /\ Comparison(result) = QuarterOf(today.y - 1, 4)

(***************************************************************************)
(* C5  a single month mention                                              *)
(***************************************************************************)
\* the matches of the winning month grammar, <<>> when none of them wins
WinningMonthMatches(pq) ==
    LET ms == FindAll("slash_dash", pq)
    IN  IF ms # <<>> THEN ms
        ELSE IF FindAll("year", pq) # <<>> THEN <<>>
        ELSE FindAll("year_month", pq)

\* C5: when a month grammar wins with exactly one match whose month is in
\* 1..12, the current window is that calendar month, the comparison window
\* the calendar month before (December of the year before for January) and
\* the label "YYYY年MM月 vs 上月" with a two-digit month; "2025/07" gives
\* [2025-07-01, 2025-07-31] vs [2025-06-01, 2025-06-30].
C5_SingleMonth ==
    LET ms == WinningMonthMatches(processed_query)
        y  == ParseInt(ms[1][1])
        m  == ParseInt(ms[1][2])
    IN  /\ (Finished /\ Len(ms) = 1 /\ m \in 1..12) =>
               /\ Returned
               /\ Current(result) = MonthOf(y, m)
               /\ Comparison(result) = MonthBefore(y, m)
               /\ result.period_text =
                     SubSeq(Iso(y, m, 1), 1, 4) \o <<cNian>>
                         \o SubSeq(Iso(y, m, 1), 6, 7)
                         \o <<cYue, " ", "v", "s", " ", cShang, cYue>>
        /\ (Finished /\ toks = << <<"2", "0", "2", "5", "/", "0", "7">> >>) =>
               /\ Returned
               /\ result.current_start
                     = <<"2", "0", "2", "5", "-", "0", "7", "-", "0", "1">>
               /\ result.current_end
                     = <<"2", "0", "2", "5", "-", "0", "7", "-", "3", "1">>
               /\ result.last_start
                     = <<"2", "0", "2", "5", "-", "0", "6", "-", "0", "1">>
               /\ result.last_end
                     = <<"2", "0", "2", "5", "-", "0", "6", "-", "3", "0">>
               /\ result.period_text
                     = <<"2", "0", "2", "5", cNian, "0", "7", cYue,
                         " ", "v", "s", " ", cShang, cYue>>

\* a single January mention was resolved against December of the year before
C5_Witness ==
    /\ Returned
    /\ locals.branch = "slash1"
    /\ Current(result) = MonthOf(2024, 1)
    /\ Comparison(result) = MonthOf(2023, 12)

(***************************************************************************)
(* C6  year-only mentions                                                  *)
(***************************************************************************)
\* C6: when the year-only grammar wins, both windows span 1 January to
\* 31 December of their year: with two or more matches the first and the
\* second mentioned year, with one match that year and the year before.
C6_YearOnly ==
    LET ys == FindAll("year", processed_query)
    IN  (Finished /\ FindAll("slash_dash", processed_query) = <<>>
            /\ ys # <<>>) =>
            /\ Returned
            /\ Current(result) = YearOf(ParseInt(ys[1][1]))
            /\ Comparison(result) =
                  IF Len(ys) >= 2 THEN YearOf(ParseInt(ys[2][1]))
                  ELSE YearOf(ParseInt(ys[1][1]) - 1)

\* "2025年 vs 2023年"-like text: two different years were resolved
C6_Witness ==
    /\ Returned
    /\ locals.branch = "year2"
    /\ Current(result) = YearOf(2025)
    /\ Comparison(result) = YearOf(2023)

(***************************************************************************)
(* C7  the defaults of the reference date                                  *)
(***************************************************************************)
NoPatternRecognized(pq) ==
    /\ FindAll("slash_dash", pq) = <<>>
    /\ FindAll("year", pq) = <<>>
    /\ FindAll("year_month", pq) = <<>>
    /\ FindAll("pure_quarter", pq) = <<>>
    /\ FindAll("quarter", pq) = <<>>

HasQuarterMarker(pq) == \E i \in 1..Len(pq) : pq[i] \in {"Q", cJi}

\* the calendar quarter (1..4) the reference date lies in
QuarterOfToday == CHOOSE q \in 1..4 : today.m \in (3 * q - 2)..(3 * q)

\* C7: when no temporal pattern is recognized, a text with a quarter marker
\* resolves to the calendar quarter of the reference date against the
\* quarter before, and a text without any temporal token resolves to the
\* calendar month of the reference date against the month before.
C7_ReferenceDefaults ==
    (Finished /\ NoPatternRecognized(processed_query)) =>
        /\ Returned
        /\ HasQuarterMarker(processed_query) =>
              /\ Current(result) = QuarterOf(today.y, QuarterOfToday)
              /\ Comparison(result) = QuarterBefore(today.y, QuarterOfToday)
        /\ ~HasQuarterMarker(processed_query) =>
              /\ Current(result) = MonthOf(today.y, today.m)
              /\ Comparison(result) = MonthBefore(today.y, today.m)

\* a text with a quarter marker and no quarter pattern was resolved
C7_Witness ==
    /\ Returned
    /\ NoPatternRecognized(processed_query)
    /\ HasQuarterMarker(processed_query)
    /\ result.current_start
          = <<"2", "0", "2", "5", "-", "0", "7", "-", "0", "1">>

(***************************************************************************)
(* C8  start <= end                                                        *)
(***************************************************************************)
\* the date a 'YYYY-MM-DD' string denotes
DateOf(str) ==
    [y |-> ParseInt(SubSeq(str, 1, 4)), m |-> ParseInt(SubSeq(str, 6, 7)),
     d |-> ParseInt(SubSeq(str, 9, 10))]

DateLE(a, b) ==
    \/ a.y < b.y
    \/ a.y = b.y /\ a.m < b.m
    \/ a.y = b.y /\ a.m = b.m /\ a.d <= b.d

\* C8: in every result resolve returns, whichever branch produced it,
\* current_start <= current_end and last_start <= last_end.
C8_StartBeforeEnd ==
    Returned =>
        /\ DateLE(DateOf(result.current_start), DateOf(result.current_end))
        /\ DateLE(DateOf(result.last_start), DateOf(result.last_end))

\* a result of a year-less quarter branch whose comparison window is the
\* last quarter of a year
C8_Witness ==
    /\ Returned
    /\ locals.branch \in {"pure1", "pure2"}
    /\ result.last_start # result.current_start
    /\ DateOf(result.last_end).m = 12

(***************************************************************************)
(* C9  totality                                                            *)
(***************************************************************************)
\* C9: resolve never ends in an error: whatever the text, also with a month
\* above 12 ("2025/13") or a quarter digit outside 1..4 ("Q5"), it returns
\* a result with two windows.
C9_Total == pc # "raised"

(***************************************************************************)
(* C10  the row list of DriverAnalysis                                     *)
(***************************************************************************)
\* the date of row f lies in the window [lo, hi] given as texts in any of
\* the accepted date formats
DatedWithin(f, lo, hi) ==
    LET d == DateOf(dim_time[f.time_id])
    IN  /\ DateLE(DateOf(_normalize_date_format(lo)), d)
        /\ DateLE(d, DateOf(_normalize_date_format(hi)))

\* the sum of amount over the rows of the store with name n in the
\* dimension and dated within [lo, hi]
WindowSum(dimension, n, lo, hi) ==
    SumAmount(sales_fact,
              { f \in DOMAIN sales_fact :
                  DimName(dimension, f) = n /\ DatedWithin(f, lo, hi) })

DriverReply == reply.op = "get_driver_analysis" /\ ~reply.raised

\* C10: the row list get_driver_analysis returns has no row with delta 0,
\* is ordered by |delta| non-increasing, and each row's delta is its
\* current-window sum minus its comparison-window sum.
C10_DriverRowList ==
    DriverReply =>
        LET rows == reply.rows
            w    == reply.windows
        IN  /\ \A i \in 1..Len(rows) :
                  /\ rows[i].diff # 0
                  /\ rows[i].current =
                        WindowSum(reply.dimension, rows[i].dim_value,
                                  w.current_start, w.current_end)
                  /\ rows[i].last =
                        WindowSum(reply.dimension, rows[i].dim_value,
                                  w.last_start, w.last_end)
                  /\ rows[i].diff = rows[i].current - rows[i].last
            /\ \A i \in 1..(Len(rows) - 1) :
                  Abs(rows[i].diff) >= Abs(rows[i + 1].diff)

\* two rows with different |delta| were returned while a third value of
\* the dimension, whose sums are equal, was left out
C10_Witness ==
    /\ DriverReply
    /\ Len(reply.rows) = 2
    /\ Abs(reply.rows[1].diff) > Abs(reply.rows[2].diff)
    /\ \E f \in DOMAIN sales_fact :
          \A i \in 1..Len(reply.rows) :
              reply.rows[i].dim_value # DimName(reply.dimension, f)

(***************************************************************************)
(* C11, C12  drill-down                                                    *)
(***************************************************************************)
DrillReply == reply.op = "drill_down_analysis" /\ reply.success

\* C11: the row list drill-down returns has no row with delta 0 and is
\* ordered by |delta| non-increasing.
C11_DrillDownRowList ==
    DrillReply =>
        /\ \A i \in 1..Len(reply.rows) : reply.rows[i].diff # 0
        /\ \A i \in 1..(Len(reply.rows) - 1) :
              Abs(reply.rows[i].diff) >= Abs(reply.rows[i + 1].diff)

\* the rows of the store with name pv in the primary dimension and name n
\* in the drill dimension, dated within [lo, hi]
DrillWindowSum(r, n, lo, hi) ==
    SumAmount(sales_fact,
              { f \in DOMAIN sales_fact :
                  /\ DimName(r.primary_dimension, f) = r.primary_value
                  /\ DimName(r.drill_dimension, f) = n
                  /\ DatedWithin(f, lo, hi) })

\* C12: every row of a drill-down reports, for its secondary value, the
\* sums of amount over exactly the rows of the store that carry the primary
\* value and are dated inside the current and the comparison window, at
\* most one row per secondary value; a primary value that no row of the
\* store carries gives an empty list, not an error.
C12_DrillDownSums ==
    (reply.op = "drill_down_analysis"
        /\ reply.primary_dimension \in dim_map
        /\ reply.drill_dimension \in dim_map) =>
        LET rows == reply.rows
            w    == reply.windows
        IN  /\ reply.success
            /\ \A i \in 1..Len(rows) :
                  /\ rows[i].current =
                        DrillWindowSum(reply, rows[i].dim_value,
                                       w.current_start, w.current_end)
                  /\ rows[i].last =
                        DrillWindowSum(reply, rows[i].dim_value,
                                       w.last_start, w.last_end)
                  /\ \E f \in DOMAIN sales_fact :
                        /\ DimName(reply.primary_dimension, f)
                              = reply.primary_value
                        /\ DimName(reply.drill_dimension, f)
                              = rows[i].dim_value
            /\ \A i, j \in 1..Len(rows) :
                  i # j => rows[i].dim_value # rows[j].dim_value
            /\ (\A f \in DOMAIN sales_fact :
                    DimName(reply.primary_dimension, f) # reply.primary_value)
                  => rows = <<>>

\* a drill-down into region R1 by staff reported S2 while the store also
\* holds a row of S2 in another region, dated inside the current window
C12_Witness ==
    /\ DrillReply
    /\ reply.primary_dimension = "region"
    /\ \E i \in 1..Len(reply.rows) :
          /\ reply.rows[i].current # 0
          /\ \E f \in DOMAIN sales_fact :
                /\ DimName("staff", f) = reply.rows[i].dim_value
                /\ DimName("region", f) # reply.primary_value
                /\ DatedWithin(f, reply.windows.current_start,
                               reply.windows.current_end)

(***************************************************************************)
(* C13, C14, C17  period analysis                                          *)
(***************************************************************************)
AnalyzeReply == reply.op = "analyze" /\ reply.success

\* some row of the store is dated inside the current or the comparison
\* window of the reply
DataInRange ==
    \E f \in DOMAIN sales_fact :
       \/ DatedWithin(f, reply.windows.current_start,
                      reply.windows.current_end)
       \/ DatedWithin(f, reply.windows.last_start, reply.windows.last_end)

\* C13: on a store that answers every query, an analysis succeeds exactly
\* when some row is dated inside one of the two windows, whatever the
\* totals and the per-value sums are, and it fails with the no-data error
\* otherwise.
C13_NoDataExactly ==
    (reply.op = "analyze" /\ reply.failing = "none") =>
        /\ reply.success <=> DataInRange
        /\ ~reply.success => reply.error = "no_data"

\* C14: the percentage of a successful analysis is delta / comparison
\* total * 100 when the comparison total is not 0, +inf when it is 0 and
\* delta > 0, -inf when it is 0 and delta < 0, and 0 when both totals
\* are 0, with delta = current total - comparison total.
C14_PercentDelta ==
    AnalyzeReply =>
        LET delta == reply.current_sales - reply.last_sales
            pct   == reply.percentage_diff
        IN  /\ reply.diff = delta
            /\ reply.last_sales # 0 =>
                  /\ pct.kind = "number"
                  /\ pct.num * reply.last_sales = delta * 100 * pct.den
            /\ (reply.last_sales = 0 /\ delta > 0) => pct.kind = "inf"
            /\ (reply.last_sales = 0 /\ delta < 0) => pct.kind = "-inf"
            /\ (reply.last_sales = 0 /\ reply.current_sales = 0) =>
                  pct.kind = "number" /\ pct.num = 0

\* an analysis with sales in the current window only, of negative total
C14_Witness ==
    /\ AnalyzeReply
    /\ reply.last_sales = 0
    /\ reply.current_sales < 0
    /\ reply.percentage_diff.kind = "-inf"

\* the position of a dimension in the fixed order
DimensionRank(d) ==
    CHOOSE k \in 1..4 : <<"product", "staff", "customer", "region">>[k] = d

\* the dates of dim_time
DateOfTime == [id \in DOMAIN dim_time |-> DateOf(dim_time[id])]

\* the sum of amount over the rows with name n in dimension d dated from
\* date lo to date hi
SumWithin(d, n, lo, hi) ==
    SumAmount(sales_fact,
              { f \in DOMAIN sales_fact :
                  /\ DimName(d, f) = n
                  /\ DateLE(lo, DateOfTime[f.time_id])
                  /\ DateLE(DateOfTime[f.time_id], hi) })

\* the deltas of the values of every dimension between the windows of the
\* reply
DeltaTable ==
    CHOOSE t \in
        { [d \in dim_map |->
             [n \in { DimName(d, f) : f \in DOMAIN sales_fact } |->
                 SumWithin(d, n, cs, ce) - SumWithin(d, n, ls, le)]] :
          cs \in {DateOf(_normalize_date_format(reply.windows.current_start))},
          ce \in {DateOf(_normalize_date_format(reply.windows.current_end))},
          ls \in {DateOf(_normalize_date_format(reply.windows.last_start))},
          le \in {DateOf(_normalize_date_format(reply.windows.last_end))} } :
        TRUE

\* the values of a dimension with a delta other than 0, given its deltas
Movers(deltas) == { n \in DOMAIN deltas : deltas[n] # 0 }

\* C17: the digest of a successful analysis of dimension P on a store that
\* answers every query has no entry for P, lists its entries in the order
\* product, staff, customer, region, and has for every other dimension
\* with a value of delta # 0 one entry: the (at most 3) values of largest
\* |delta| with their deltas, by |delta| non-increasing.
C17_Digest ==
    (AnalyzeReply /\ reply.failing = "none") =>
        \A delta \in {DeltaTable} :
        LET ref == reply.other_dimension_reference
        IN  /\ \A i \in 1..Len(ref) :
                  ref[i].dimension \in dim_map \ {reply.dimension}
            /\ \A i, j \in 1..Len(ref) :
                  i < j => DimensionRank(ref[i].dimension)
                              < DimensionRank(ref[j].dimension)
            /\ \A d \in dim_map \ {reply.dimension} :
                  (Movers(delta[d]) # {}) <=>
                      (\E i \in 1..Len(ref) : ref[i].dimension = d)
            /\ \A i \in 1..Len(ref) :
                  LET rows == ref[i].rows
                      d    == ref[i].dimension
                  IN  /\ Len(rows) = Min(3, Cardinality(Movers(delta[d])))
                      /\ \A k \in 1..Len(rows) :
                            /\ rows[k].dim_value \in Movers(delta[d])
                            /\ rows[k].diff = delta[d][rows[k].dim_value]
                      /\ \A k, l \in 1..Len(rows) :
                            k < l =>
                               /\ rows[k].dim_value # rows[l].dim_value
                               /\ Abs(rows[k].diff) >= Abs(rows[l].diff)
                      /\ \A n \in Movers(delta[d]) :
                            (\A k \in 1..Len(rows) : rows[k].dim_value # n)
                            => \A k \in 1..Len(rows) :
                                  Abs(delta[d][n]) <= Abs(rows[k].diff)

\* an analysis by staff whose digest keeps three of four products that
\* moved
C17_Witness ==
    /\ AnalyzeReply
    /\ reply.failing = "none"
    /\ reply.dimension = "staff"
    /\ Cardinality(Movers(DeltaTable["product"])) = 4
    /\ \E i \in 1..Len(reply.other_dimension_reference) :
          /\ reply.other_dimension_reference[i].dimension = "product"
          /\ Len(reply.other_dimension_reference[i].rows) = 3

(***************************************************************************)
(* C18  store failures                                                     *)
(***************************************************************************)
\* C18: an operation during which a store query raised ends in a failure,
\* never in a successful reply.
C18_StoreFailurePropagates ==
    /\ (reply.op = "drill_down_analysis" /\ reply.store_failed
           /\ reply.primary_dimension \in dim_map
           /\ reply.drill_dimension \in dim_map) => ~reply.success
    /\ (reply.op = "analyze" /\ reply.failing # "none") => ~reply.success

(***************************************************************************)
(* Entity lookups                                                          *)
(***************************************************************************)

EntityReply == reply.op = "analyze_query" /\ reply.route \in dim_map

\* C15: an entity candidate that is not a name of its dimension gives a
\* successful lookup result with exists = false and no rows, for each of
\* the four dimensions.
C15_UnknownEntity ==
    (EntityReply
        /\ reply.candidate \notin _get_dimension_values(reply.route, FALSE))
    => (reply.success /\ ~reply.exists /\ reply.data = {})

StopSuffixes == UNION { entity_patterns[k].stops : k \in 1..4 }

\* C16: the entity candidate is a run of 2 to 10 CJK characters that
\* stops before a stop suffix word: it holds no stop suffix, a keyword
\* directly followed by a suffix gives no candidate, and a name followed
\* by a suffix gives the name alone.
C16_CandidateStopsBeforeSuffix ==
    /\ EntityReply =>
         /\ Len(reply.candidate) \in 2..10
         /\ \A c \in 1..Len(reply.candidate) : IsCJK(reply.candidate[c])
         /\ \A w \in StopSuffixes : ~Contains(reply.candidate, w)
    /\ \A k \in 1..4 : \A w \in entity_patterns[k].stops :
         (reply.op = "analyze_query" /\ query = entity_patterns[k].keyword \o w)
            => reply.route = "general"
    /\ \A k \in 1..4 : \A w \in entity_patterns[k].stops :
         (reply.op = "analyze_query"
            /\ query = entity_patterns[k].keyword \o <<"U+674E", cSi>> \o w)
            => reply.candidate = <<"U+674E", cSi>>

(***************************************************************************)
(* Dimension keys                                                          *)
(***************************************************************************)

\* C19: every operation that takes a dimension key fails for a key outside
\* product, staff, customer, region, and returns no normal value for it:
\* the driver analysis, the drill-down (both of its keys), the available
\* drill-down dimensions and the names of a dimension.
C19_InvalidDimensionFails ==
    /\ (reply.op = "get_driver_analysis" /\ reply.dimension \notin dim_map)
          => reply.raised
    /\ (reply.op = "drill_down_analysis"
          /\ (reply.primary_dimension \notin dim_map
                \/ reply.drill_dimension \notin dim_map))
          => ~reply.success
    /\ (reply.op \in {"get_available_dimensions", "_get_dimension_values"}
          /\ reply.dimension \notin dim_map)
          => reply.raised

(***************************************************************************)
(* The dimension classifier                                                *)
(***************************************************************************)

KeywordSets == <<product_words, staff_words, customer_words, region_words>>

KeywordHits == { k \in 1..4 : AnyWordIn(KeywordSets[k], query) }

\* C20: the classifier returns the first dimension, in the order product,
\* staff, customer, region, one of whose keywords occurs in the raw text,
\* and product when no keyword of any dimension occurs.
C20_ClassifierFirstKeywordSet ==
    pc = "done" =>
        result.dimension =
            IF KeywordHits = {} THEN "product"
            ELSE <<"product", "staff", "customer", "region">>[
                     CHOOSE k \in KeywordHits : \A l \in KeywordHits : k <= l]

\* a text with a staff keyword before a product keyword is classified
\* product
C20_Witness ==
    /\ pc = "done"
    /\ Len(toks) = 2 /\ toks[1] \in staff_words /\ toks[2] \in product_words
    /\ result.dimension = "product"

(***************************************************************************)
(* The reference date                                                      *)
(***************************************************************************)

\* the calendar quarter (1..4) a date lies in
QuarterOfDate(d) == CHOOSE q \in 1..4 : d.m \in (3 * q - 2)..(3 * q)

\* C21: every relative default follows the reference date of the caller:
\* a Q<d> mention without a year is a quarter of the year of that date,
\* the quarter fallback is the quarter of that date and the month fallback
\* is the month of that date, each against the period before.
C21_ReferenceDateArgument ==
    LET ts == TemporalTokens(toks)
        reference_date == reply.reference_date
        q == QuarterOfDate(reference_date)
    IN  /\ (Returned /\ Len(ts) = 1 /\ ts[1] \in InRangeQuarterTokens) =>
               Current(result) = QuarterOf(reference_date.y, QuarterIn(ts[1]))
        /\ (Returned /\ NoPatternRecognized(processed_query)) =>
               IF HasQuarterMarker(processed_query)
               THEN /\ Current(result) = QuarterOf(reference_date.y, q)
                    /\ Comparison(result) = QuarterBefore(reference_date.y, q)
               ELSE /\ Current(result)
                          = MonthOf(reference_date.y, reference_date.m)
                    /\ Comparison(result)
                          = MonthBefore(reference_date.y, reference_date.m)

(***************************************************************************)
(* Repeated calls                                                          *)
(***************************************************************************)

C23_SubstitutionOrder ==
    /\ \A i \in 1..Len(processed_query) :
          processed_query[i] \in NormalizerAlphabet
    /\ pc = "normalized" => processed_query = NormalizeText(query)

\* the month word of November, which ends in the word of January, was
\* replaced whatever the order
C23_Witness ==
    /\ pc = "normalized"
    /\ toks = << <<cNian>>, <<cShi>>, <<cYi, cYue>> >>
    /\ processed_query = <<cNian, "1", "1", cYue>>

(***************************************************************************)
(* The summary                                                             *)
(***************************************************************************)

SummaryReply == reply.op = "summary"

\* C24: for a delta other than 0 the intensity word follows |percent
\* delta| alone: 大幅 above 50, 明顯 from 20 to 50 with both ends, 小幅
\* below 20 (an infinite percent delta is above 50).
C24_TrendIntensity ==
    (SummaryReply /\ reply.diff # 0) =>
        LET size == Abs(reply.diff) * 100
            base == Abs(reply.last_sales)
        IN  reply.trend_intensity =
               IF base = 0 \/ size > 50 * base
               THEN <<"U+5927", "U+5E45">>
               ELSE IF size >= 20 * base
               THEN <<"U+660E", "U+986F">>
               ELSE <<"U+5C0F", "U+5E45">>

\* C29: the summary has increase wording (成長, 增加) only for a delta
\* above 0 and decrease wording (下滑, 減少) only for a delta below 0; for
\* a delta of 0 it says 持平 and has neither.
C29_DirectionWording ==
    SummaryReply =>
        /\ (Contains(reply.summary, <<"U+6210", "U+9577">>)
              \/ Contains(reply.summary, <<"U+589E", "U+52A0">>))
              => reply.diff > 0
        /\ (Contains(reply.summary, <<"U+4E0B", "U+6ED1">>)
              \/ Contains(reply.summary, <<"U+6E1B", "U+5C11">>))
              => reply.diff < 0
        /\ reply.diff = 0 => Contains(reply.summary, <<"U+6301", "U+5E73">>)

(***************************************************************************)
(* The quarter path                                                        *)
(***************************************************************************)

QuarterReply == reply.op = "analyze_quarter" /\ reply.success

\* the summed amount of the fact rows of quarter k = <<year, quarter>>
QuarterTotal(k) ==
    SumAmount(sales_fact,
              { f \in DOMAIN sales_fact :
                  /\ DateOfTime[f.time_id].y = k[1]
                  /\ DateOfTime[f.time_id].m \in (3 * k[2] - 2)..(3 * k[2]) })

\* C26: on the quarter path the current total is the summed amount of the
\* rows of the current quarter, the comparison total that of the rows of
\* the comparison quarter, also for two quarters of one year, and delta
\* is their difference.
C26_QuarterTotals ==
    QuarterReply =>
        /\ reply.current_sales = QuarterTotal(reply.current)
        /\ reply.last_sales = QuarterTotal(reply.compare)
        /\ reply.diff = reply.current_sales - reply.last_sales

\* the summed amount of the fact rows dated within a reported window
WindowTotal(lo, hi) ==
    SumAmount(sales_fact,
              { f \in DOMAIN sales_fact :
                  /\ DateLE(DateOf(lo), DateOfTime[f.time_id])
                  /\ DateLE(DateOfTime[f.time_id], DateOf(hi)) })

\* C27: in a successful analysis, on the period path and on the quarter
\* path, the totals are the sums over the reported windows, and the
\* quarters of the label of the quarter path are the reported windows.
C27_ReportedWindows ==
    (reply.op \in {"analyze", "analyze_quarter"} /\ reply.success) =>
        /\ reply.current_sales
              = WindowTotal(reply.windows.current_start,
                            reply.windows.current_end)
        /\ reply.last_sales
              = WindowTotal(reply.windows.last_start, reply.windows.last_end)
        /\ reply.op = "analyze_quarter" =>
              /\ QuarterOf(reply.current[1], reply.current[2])
                    = Window(reply.windows.current_start,
                             reply.windows.current_end)
              /\ QuarterOf(reply.compare[1], reply.compare[2])
                    = Window(reply.windows.last_start,
                             reply.windows.last_end)

(***************************************************************************)
(* Driver rows and period totals                                           *)
(***************************************************************************)

\* the sum of the deltas of the first k driver rows
RECURSIVE SumOfDeltas(_, _)
SumOfDeltas(rows, k) ==
    IF k = 0 THEN 0 ELSE rows[k].diff + SumOfDeltas(rows, k - 1)

\* C28: the deltas of the rows of the driver analysis add up to the delta
\* of the period totals of the same windows, current total minus
\* comparison total, for every store, pair of windows and dimension.
C28_DriverDeltasAddUp ==
    AnalyzeReply =>
        SumOfDeltas(reply.driver_data, Len(reply.driver_data))
            = reply.current_sales - reply.last_sales

\* driver rows of both signs and a value without a row
C28_Witness ==
    /\ AnalyzeReply
    /\ reply.current_sales # reply.last_sales
    /\ \E i, j \in 1..Len(reply.driver_data) :
          reply.driver_data[i].diff > 0 /\ reply.driver_data[j].diff < 0
    /\ \E f \in DOMAIN sales_fact :
          \A i \in 1..Len(reply.driver_data) :
              reply.driver_data[i].dim_value # DimName(reply.dimension, f)

(***************************************************************************)
(* The forecast scheduler (scheduler.py).  config is the attribute of the  *)
(* ForecastScheduler object of the process, schedule_config_json what the  *)
(* file holds, jobs the list schedule.jobs.  A configuration is modelled   *)
(* by its keys schedule_type and execution_time.                           *)
(***************************************************************************)
MaxJobs == 3

ScheduleTypes == { "daily", "weekly", "monthly", "none" }

\* a time Job.at accepts and one it raises on
ExecutionTimes == { "08:00", "8am" }

\* the configurations add_schedule is called with
Configs == [schedule_type : ScheduleTypes, execution_time : ExecutionTimes]

empty_config == [schedule_type |-> "none", execution_time |-> ""]

\* self.config after load_schedule_config
load_schedule_config ==
    IF schedule_config_json = NoFile THEN EmptyDict ELSE schedule_config_json

\* open(..., 'w') and json.dump: everything is written, open raises, or the
\* file is left truncated by a write that raises
SaveOutcomes == { "saved", "not opened", "truncated" }

save_schedule_config(cfg, outcome) ==
    [returned |-> outcome = "saved",
     config   |-> IF outcome = "saved" THEN cfg ELSE config,
     file     |-> CASE outcome = "saved"      -> cfg
                    [] outcome = "not opened" -> schedule_config_json
                    [] OTHER                  -> NoFile]

\* Job.at(execution_time) returns (it raises on a text that is no time)
AtAccepts(execution_time) == execution_time = "08:00"

\* setup_schedule(config) on the job list js.  month_unit: whether the
\* schedule library of the installation has a unit `month`; the attribute
\* access raises where it has none.
setup_schedule(js, cfg, month_unit) ==
    LET unit == CASE cfg.schedule_type = "daily"   -> "day"
                  [] cfg.schedule_type = "weekly"  -> "monday"
                  [] cfg.schedule_type = "monthly" -> "month"
                  [] OTHER                         -> "none"
        raised == /\ unit # "none"
                  /\ \/ unit = "month" /\ ~month_unit
                     \/ ~AtAccepts(cfg.execution_time)
    IN  [returned |-> ~raised,
         jobs     |-> IF unit = "none" \/ raised
                      THEN js
                      ELSE Append(js, [unit |-> unit,
                                       at |-> cfg.execution_time])]

\* a cancel that leaves self.config as it was would keep a schedule
\* to resume
resumable_when_configured(cfg) == cfg # EmptyDict

\* the condition of resume_schedule and of start_scheduler
resumable(cfg) == cfg # EmptyDict /\ cfg.schedule_type # "none"

\* the 'status' of get_schedule_status()
get_schedule_status ==
    IF config = EmptyDict \/ config.schedule_type = "none" THEN "disabled"
    ELSE IF jobs # <<>> THEN "active"
    ELSE "paused"

cancel_schedule(outcome) ==
    LET s == save_schedule_config(empty_config, outcome) IN
    /\ jobs' = <<>>
    /\ config' = s.config
    /\ schedule_config_json' = s.file
    /\ reply' = [op |-> "cancel_schedule",
                 returned |-> IF s.returned THEN "True" ELSE "False"]
    /\ UNCHANGED <<resolveVars, sales_fact>>

pause_schedule ==
    /\ jobs' = <<>>
    /\ reply' = [op |-> "pause_schedule", returned |-> "True"]
    /\ UNCHANGED <<resolveVars, sales_fact, config, schedule_config_json>>

resume_schedule(month_unit) ==
    /\ Len(jobs) < MaxJobs
    /\ IF resumable(config)
       THEN LET s == setup_schedule(jobs, config, month_unit) IN
            /\ jobs' = s.jobs
            /\ reply' = [op |-> "resume_schedule",
                         returned |-> IF s.returned THEN "True" ELSE "None"]
       ELSE /\ jobs' = jobs
            /\ reply' = [op |-> "resume_schedule", returned |-> "False"]
    /\ UNCHANGED <<resolveVars, sales_fact, config, schedule_config_json>>

add_schedule(cfg, outcome, month_unit) ==
    LET s == save_schedule_config(cfg, outcome)
        t == setup_schedule(<<>>, cfg, month_unit)
    IN  /\ config' = s.config
        /\ schedule_config_json' = s.file
        /\ jobs' = IF s.returned THEN t.jobs ELSE <<>>
        /\ reply' = [op |-> "add_schedule",
                     returned |-> IF s.returned /\ t.returned
                                  THEN "True" ELSE "False"]
        /\ UNCHANGED <<resolveVars, sales_fact>>

\* start_scheduler up to its loop
start_scheduler(month_unit) ==
    /\ Len(jobs) < MaxJobs
    /\ config' = load_schedule_config
    /\ jobs' = IF resumable(load_schedule_config)
               THEN setup_schedule(jobs, load_schedule_config, month_unit).jobs
               ELSE jobs
    /\ reply' = [op |-> "start_scheduler", returned |-> "None"]
    /\ UNCHANGED <<resolveVars, sales_fact, schedule_config_json>>

\* one pass of the loop of start_scheduler at the time job j is due:
\* every job of that time is run
run_pending(j) ==
    /\ j \in 1..Len(jobs)
    /\ reply' = [op |-> "run_pending",
                 due |-> jobs[j],
                 runs |-> Cardinality({ i \in 1..Len(jobs) :
                                           jobs[i] = jobs[j] })]
    /\ UNCHANGED <<resolveVars, sales_fact, schedulerVars>>

show_status ==
    /\ reply' = [op |-> "get_schedule_status",
                 status |-> get_schedule_status]
    /\ UNCHANGED <<resolveVars, sales_fact, schedulerVars>>

\* the process starts with the file as add_schedule of an earlier run
\* left it, or without one
InitScheduler ==
    /\ toks = <<>>
    /\ query = <<>>
    /\ pc = "idle"
    /\ processed_query = <<>>
    /\ locals = NoLocals
    /\ result = NoResult
    /\ sales_fact = EmptyBag
    /\ reply = NoReply
    /\ schedule_config_json \in Configs \cup { NoFile }
    /\ config = load_schedule_config
    /\ jobs = <<>>

NextScheduler ==
    \/ \E cfg \in Configs, outcome \in SaveOutcomes, m \in BOOLEAN :
          add_schedule(cfg, outcome, m)
    \/ \E outcome \in SaveOutcomes : cancel_schedule(outcome)
    \/ pause_schedule
    \/ \E m \in BOOLEAN : resume_schedule(m)
    \/ \E m \in BOOLEAN : start_scheduler(m)
    \/ \E j \in 1..MaxJobs : run_pending(j)
    \/ show_status

SpecScheduler == InitScheduler /\ [][NextScheduler]_vars

(***************************************************************************)
(* Cancelling a schedule                                                   *)
(***************************************************************************)

\* C25: once cancel_schedule has returned True, and as long as
\* add_schedule has not saved another configuration (self.config is the
\* empty configuration cancel_schedule saved), the status is 'disabled',
\* no job is registered, and a resume_schedule that has returned, after
\* whatever pause_schedule and resume_schedule calls, has returned False.
C25_CancelDisables ==
    config = empty_config =>
        /\ get_schedule_status = "disabled"
        /\ jobs = <<>>
        /\ reply.op = "resume_schedule" => reply.returned = "False"

\* a resume_schedule after a cancel_schedule of a schedule that had been
\* saved
C25_Witness ==
    /\ config = empty_config
    /\ schedule_config_json = empty_config
    /\ reply = [op |-> "resume_schedule", returned |-> "False"]

(***************************************************************************)
(* The number of registered jobs                                           *)
(***************************************************************************)

\* C30: after any sequence of add_schedule, pause_schedule,
\* resume_schedule, cancel_schedule and start_scheduler calls at most one
\* job is registered, and a pass of the scheduler at a scheduled time runs
\* the forecast at most once.
C30_AtMostOneJob ==
    /\ Len(jobs) <= 1
    /\ reply.op = "run_pending" => reply.runs <= 1

====
